---- MODULE Spec2Model ----
(***************************************************************************)
(* PyAntiSpam: the decision pipeline (EmailProcessor._process_single_email)*)
(* with its rule lists, its fingerprint cache and cache file, the ML and   *)
(* the external (LLM) classifier, and the feedback loop's cache overrides. *)
(*                                                                         *)
(* Strings are sequences of one-character strings, confidences are in      *)
(* hundredths (1.0 is 100), time is in whole days.                         *)
(***************************************************************************)
EXTENDS Integers, Sequences, FiniteSets, TLC

VARIABLES
    now,                            \* time.time(), in days
    ticks,                          \* number of clock advances so far
    cache_file,                     \* data/llm_cache.json: fingerprint -> entry
    config,                         \* the configuration of the running processor
    whitelist,                      \* ListManager.whitelist  {emails, domains}
    blacklist,                      \* ListManager.blacklist  {emails, domains}
    processed_emails_cache,         \* EmailProcessor.processed_emails_cache
    llm_training_samples,           \* EmailProcessor.llm_training_samples
    processed_training_fingerprints,\* EmailProcessor.processed_training_fingerprints
    ml,                             \* MLClassifier state
    llm,                            \* LLMClassifier clients
    llm_calls,                      \* external API calls per fingerprint, this processor
    last,                           \* record of the last operation and its result
    env,                            \* what the machine provides to a run
    born,                           \* per fingerprint, the day its external
                                    \* verdict was obtained (-1: never)
    model_files,                    \* spam_model.pkl, feature_scaler.pkl and
                                    \* feature_names.json in data/
    feedback,                       \* FeedbackProcessor: its sample buffer, its
                                    \* ListManager and its MLClassifier
    call,                           \* the last direct call: what it was given
                                    \* and what it found
    ret,                            \* what that call returned
    list_files,                     \* data/whitelist.json and blacklist.json
    sender_history,                 \* data/sender_feedback_history.json
    extractor,                      \* FeatureExtractor: its cached history table
    clock                           \* time.time(), in seconds

vars == <<now, ticks, cache_file, config, whitelist, blacklist,
          processed_emails_cache, llm_training_samples,
          processed_training_fingerprints, ml, llm, llm_calls, last, env,
          born, model_files, feedback, call, ret,
          list_files, sender_history, extractor, clock>>

----------------------------------------------------------------------------
(* Bounds *)

MaxTicks == 2
MaxLlmCalls == 2

----------------------------------------------------------------------------
(* Strings *)

UpperLetters == <<"A","B","C","D","E","F","G","H","I","J","K","L","M",
                  "N","O","P","Q","R","S","T","U","V","W","X","Y","Z">>
LowerLetters == <<"a","b","c","d","e","f","g","h","i","j","k","l","m",
                  "n","o","p","q","r","s","t","u","v","w","x","y","z">>

LowerChar(c) ==
    IF \E i \in 1..Len(UpperLetters) : UpperLetters[i] = c
    THEN LowerLetters[CHOOSE i \in 1..Len(UpperLetters) : UpperLetters[i] = c]
    ELSE c

\* str.lower()
Lower(s) == [i \in 1..Len(s) |-> LowerChar(s[i])]

UpperChar(c) ==
    IF \E i \in 1..Len(LowerLetters) : LowerLetters[i] = c
    THEN UpperLetters[CHOOSE i \in 1..Len(LowerLetters) : LowerLetters[i] = c]
    ELSE c

\* str.upper()
Upper(s) == [i \in 1..Len(s) |-> UpperChar(s[i])]

\* str.strip() on a text whose only white space is the blank
RECURSIVE Strip(_)
Strip(s) ==
    IF s = <<>> THEN s
    ELSE IF s[1] = " " THEN Strip(Tail(s))
    ELSE IF s[Len(s)] = " " THEN Strip(SubSeq(s, 1, Len(s) - 1))
    ELSE s

\* str.startswith
StartsWith(s, prefix) ==
    Len(s) >= Len(prefix) /\ SubSeq(s, 1, Len(prefix)) = prefix

\* s.split("/")[0]
BeforeSlash(s) ==
    IF \E i \in 1..Len(s) : s[i] = "/"
    THEN SubSeq(s, 1, (CHOOSE i \in 1..Len(s) :
                          s[i] = "/" /\ \A j \in 1..(i-1) : s[j] # "/") - 1)
    ELSE s

\* "@" in s
HasAt(s) == \E i \in 1..Len(s) : s[i] = "@"

\* s.split("@")[-1]
SplitAtLast(s) ==
    IF HasAt(s)
    THEN LET k == CHOOSE i \in 1..Len(s) :
                      /\ s[i] = "@"
                      /\ \A j \in (i+1)..Len(s) : s[j] # "@"
         IN  SubSeq(s, k + 1, Len(s))
    ELSE s

\* s[:n]
Prefix(s, n) == SubSeq(s, 1, IF Len(s) < n THEN Len(s) ELSE n)

Min(a, b) == IF a < b THEN a ELSE b
Max(a, b) == IF a > b THEN a ELSE b

----------------------------------------------------------------------------
(* Senders, rule-list contents, messages *)

ALICE    == <<"a","@","e",".","c">>
ALICE_UP == <<"A","@","E",".","C">>
BOB      == <<"b","@","e",".","c">>
EVE      == <<"x","@","s",".","t","k">>
DOM_EC   == <<"e",".","c">>
DOM_STK  == <<"s",".","t","k">>

NoList == [emails |-> {}, domains |-> {}]

\* Contents of whitelist.json / blacklist.json: entries are stored lowercased.
ListConfigs ==
    { [wl |-> [emails |-> {ALICE}, domains |-> {}],
       bl |-> [emails |-> {ALICE}, domains |-> {DOM_STK}]],
      [wl |-> [emails |-> {}, domains |-> {DOM_EC}],
       bl |-> [emails |-> {}, domains |-> {DOM_EC, DOM_STK}]],
      [wl |-> NoList,
       bl |-> [emails |-> {ALICE, EVE}, domains |-> {}]] }

\* EmailClient._parse_email: sender_domain is what follows the last "@".
ParseDomain(sender_email) ==
    IF HasAt(sender_email) THEN SplitAtLast(sender_email) ELSE <<>>

Msg(sender, domain, subject, body) ==
    [sender_email |-> sender, sender_domain |-> domain,
     subject |-> subject, body |-> body]

\* Message records handed to the pipeline; the second one has no
\* sender_domain (the key is absent, .get gives "").
Messages ==
    { Msg(ALICE_UP, ParseDomain(ALICE_UP), <<"h","i">>, <<"x">>),
      Msg(BOB, <<>>, <<"h","i">>, <<"x">>),
      Msg(EVE, ParseDomain(EVE), <<"w","i","n">>, <<"$">>) }

----------------------------------------------------------------------------
(* Rule lists *)

FpBodyChars == 200

\* ListManager.is_whitelisted / is_blacklisted: the matching rule, or "none".
ListMatch(list, email0, domain0) ==
    LET email  == Lower(email0)
        domain == Lower(IF domain0 = <<>>
                        THEN (IF HasAt(email) THEN SplitAtLast(email) ELSE email)
                        ELSE domain0)
    IN  IF email \in list.emails THEN "email"
        ELSE IF domain \in list.domains THEN "domain"
        ELSE "none"

\* a whitelist lookup that compares the address and the domain as given
is_whitelisted_exact(email, domain) ==
    IF email \in whitelist.emails THEN "email"
    ELSE IF (IF domain = <<>> THEN SplitAtLast(email) ELSE domain)
              \in whitelist.domains THEN "domain"
    ELSE "none"

is_whitelisted(email, domain) == ListMatch(whitelist, email, domain)

\* a blacklist lookup that looks at the addresses only
is_blacklisted_emails_only(email, domain) ==
    IF Lower(email) \in blacklist.emails THEN "email" ELSE "none"

is_blacklisted(email, domain) == ListMatch(blacklist, email, domain)

\* a fingerprint computed from the whole body
get_email_fingerprint_whole_body(m) ==
    m.sender_email \o m.subject \o m.body

\* EmailProcessor._get_email_fingerprint: the digest is represented by the
\* text it is computed from.
get_email_fingerprint(m) ==
    m.sender_email \o m.subject \o Prefix(m.body, FpBodyChars)

Fingerprints == { get_email_fingerprint(m) : m \in Messages }

----------------------------------------------------------------------------
(* Configuration *)

ML_CONFIDENCE_THRESHOLD_DEFAULT == 80
MAX_AGE_DAYS_DEFAULT == 30
MARKETING_THRESHOLD_DEFAULT == 60
LLM_SAMPLE_MIN_CONFIDENCE == 70
MIN_TRAINING_SAMPLES == 10
LLM_RETRAIN_SAMPLES == 10
UNCERTAIN_CONFIDENCE == 50
FALLBACK_TEXT_CONFIDENCE == 70
FULL_CONFIDENCE == 100
RETRAIN_THRESHOLD_DEFAULT == 10

\* config.yaml with every key absent: the defaults of the .get calls.  The
\* first four fields are the values the lookups of the pipeline resolve to;
\* learning is the section of that name as the file gives it, detection
\* holds the marketing keys of that section as the file gives them.
DefaultConfig ==
    [use_llm_for_uncertain   |-> TRUE,
     ml_confidence_threshold |-> ML_CONFIDENCE_THRESHOLD_DEFAULT,
     cache_enabled           |-> TRUE,
     max_age_days            |-> MAX_AGE_DAYS_DEFAULT,
     learning                |-> [k \in {} |-> 0],
     detection               |-> [k \in {} |-> 0]]

\* Configurations a run can be started with: the defaults, and the defaults
\* with one key set.
Configs ==
    { DefaultConfig,
      [DefaultConfig EXCEPT !.use_llm_for_uncertain = FALSE],
      [DefaultConfig EXCEPT !.cache_enabled = FALSE] }

\* Configurations of the runs in which the age of cache entries matters.
CacheConfigs ==
    { DefaultConfig,
      [DefaultConfig EXCEPT !.max_age_days = 0] }

\* Configurations of the runs of the feedback loop: the defaults, a
\* retrain threshold set in the learning section, the cache disabled.
CONFIGURED_THRESHOLD == 2

FeedbackConfigs ==
    { DefaultConfig,
      [DefaultConfig EXCEPT !.learning = [retrain_threshold |-> CONFIGURED_THRESHOLD]],
      [DefaultConfig EXCEPT !.cache_enabled = FALSE] }

\* dict.get(key, default) on the configuration dict
DictGet(d, key, default) == IF key \in DOMAIN d THEN d[key] ELSE default

\* ConfigManager.get(section.key, default): the dotted lookup
ConfigGet(d, section, key, default) ==
    IF section \in DOMAIN d /\ key \in DOMAIN d[section]
    THEN d[section][key] ELSE default

----------------------------------------------------------------------------
(* Decisions *)

Decision(action, reason, confidence, method) ==
    [action |-> action, reason |-> reason,
     confidence |-> confidence, method |-> method]

\* dict.get("override", False)
GetOverride(entry) ==
    IF "override" \in DOMAIN entry THEN entry.override ELSE FALSE

\* the same test with the method and the flag misspelt
IsOverrideEntry_misspelt(entry) ==
    \/ entry.method = "user-feedback"
    \/ IF "is_override" \in DOMAIN entry THEN entry.is_override ELSE FALSE

\* the test of _process_single_email on a cached entry (step 2)
IsOverrideEntry(entry) ==
    entry.method = "user_feedback" \/ GetOverride(entry)

\* cached_result["reason"] += note
Annotate(entry, note) == [entry EXCEPT !.reason = Append(@, note)]

\* dict.pop('timestamp', None) on a copy
PopTimestamp(entry) ==
    [k \in DOMAIN entry \ {"timestamp"} |-> entry[k]]

\* cache_entry['timestamp'] = t on a copy
WithTimestamp(entry, t) ==
    [k \in DOMAIN entry \cup {"timestamp"} |->
        IF k = "timestamp" THEN t ELSE entry[k]]

\* an assignment that is lost
Put_lost(d, key, value) == d

\* d[key] = value on a dict
Put(d, key, value) ==
    [k \in DOMAIN d \cup {key} |-> IF k = key THEN value ELSE d[k]]

EmptyDict == [k \in {} |-> 0]

\* a cache-file entry that is not a JSON object (null)
NullEntry == [null |-> TRUE]

\* no decision, no entry
NoDecision == Decision("NONE", <<>>, 0, "none")

----------------------------------------------------------------------------
(* ML classifier *)

\* What the fitted model, the scaler and the extractor do on one call.
MLInputs ==
    { [raises |-> TRUE,  transform_fails |-> FALSE, reinit_ok |-> FALSE,
       is_spam |-> FALSE, confidence |-> 50, marketing_score |-> 0],
      [raises |-> FALSE, transform_fails |-> FALSE, reinit_ok |-> FALSE,
       is_spam |-> TRUE,  confidence |-> 95, marketing_score |-> 0],
      [raises |-> FALSE, transform_fails |-> FALSE, reinit_ok |-> FALSE,
       is_spam |-> FALSE, confidence |-> 80, marketing_score |-> 0],
      [raises |-> FALSE, transform_fails |-> FALSE, reinit_ok |-> FALSE,
       is_spam |-> FALSE, confidence |-> 60, marketing_score |-> 90],
      [raises |-> FALSE, transform_fails |-> TRUE,  reinit_ok |-> TRUE,
       is_spam |-> FALSE, confidence |-> 95, marketing_score |-> 0],
      [raises |-> FALSE, transform_fails |-> TRUE,  reinit_ok |-> FALSE,
       is_spam |-> TRUE,  confidence |-> 95, marketing_score |-> 0] }

\* the input of a call that does not reach the fitted model
NoMLInput == CHOOSE in \in MLInputs : in.raises

\* FeatureExtractor.get_feature_names of the running version (a sorted
\* list), and the lists of two earlier versions: one feature fewer, and the
\* same number of features with one of them under another name.
CurrentFeatureNames ==
    <<"content_length", "sender_total_feedbacks", "subject_length">>
FewerFeatureNames ==
    <<"content_length", "subject_length">>
RenamedFeatureNames ==
    <<"content_length", "sender_feedback_count", "subject_length">>

\* MLClassifier.create_default_training_data: 5 spam and 5 ham samples.
DefaultSampleSenders ==
    << <<"w">>, <<"n">>, <<"p">>, <<"f">>, <<"m">>,
       <<"s">>, <<"l">>, <<"r">>, <<"c">>, <<"t">> >>

create_default_training_data ==
    [i \in 1..Len(DefaultSampleSenders) |->
        [email_data |-> Msg(DefaultSampleSenders[i], <<>>, <<>>, <<>>),
         is_spam |-> (i <= 5)]]

\* The persisted artifact: the pickled model and the pickled scaler, each
\* given by the samples of the training pass that fitted it (model_on,
\* scaler_on), the feature names the scaler was fitted on, and
\* feature_names.json when it exists.  kind is "present" when both pickles
\* exist, "model_only" when only spam_model.pkl does.
Artifact(kind, fitted_names, has_names, saved_names, model_on, scaler_on) ==
    [kind |-> kind, fitted_names |-> fitted_names,
     has_names |-> has_names, saved_names |-> saved_names,
     model_on |-> model_on, scaler_on |-> scaler_on]

NoArtifact == Artifact("absent", <<>>, FALSE, <<>>, <<>>, <<>>)

\* MLClassifier._save_model: what the three files hold after a save in
\* which every write goes through.
save_model(mlc) ==
    Artifact("present", mlc.fitted_names, TRUE, mlc.feature_names,
             mlc.model_on, mlc.scaler_on)

\* how far a save gets: every write goes through, or the write of the
\* scaler raises (the model is written), or the write of the feature names
\* raises (model and scaler are written)
SaveOutcomes == {"ok", "scaler_write_fails", "names_write_fails"}

\* MLClassifier._save_model, the files after a save that gets as far as
\* outcome says: the files are written one after the other, in place.
save_model_interrupted(mlc, files, outcome) ==
    CASE outcome = "ok" -> save_model(mlc)
      [] outcome = "scaler_write_fails" ->
           IF files.kind = "absent"
           THEN [files EXCEPT !.kind = "model_only", !.model_on = mlc.model_on]
           ELSE [files EXCEPT !.model_on = mlc.model_on]
      [] outcome = "names_write_fails" ->
           [files EXCEPT !.kind = "present",
                         !.fitted_names = mlc.fitted_names,
                         !.model_on = mlc.model_on,
                         !.scaler_on = mlc.scaler_on]

\* a training that accepts nine samples
train_with_samples_nine(mlc, samples, fit_ok) ==
    IF ~mlc.sklearn_available
    THEN [ml |-> mlc, success |-> FALSE, error |-> "sklearn"]
    ELSE IF Len(samples) < MIN_TRAINING_SAMPLES - 1
    THEN [ml |-> mlc, success |-> FALSE, error |-> "insufficient"]
    ELSE IF ~fit_ok
    THEN [ml |-> mlc, success |-> FALSE, error |-> "exception"]
    ELSE [ml |-> [mlc EXCEPT !.model_trained = TRUE,
                             !.model = "fitted",
                             !.fitted_names = mlc.feature_names,
                             !.model_on = samples,
                             !.scaler_on = samples],
          success |-> TRUE, error |-> "none"]

\* MLClassifier.train_with_samples: the classifier after the call and the
\* result; fit_ok says whether extraction, fitting and scoring go through.
\* A successful pass fits scaler and model on the current feature names and
\* the given samples alone (a new scaler fit, a new forest) and saves them
\* (save_model).
train_with_samples(mlc, samples, fit_ok) ==
    IF ~mlc.sklearn_available
    THEN [ml |-> mlc, success |-> FALSE, error |-> "sklearn"]
    ELSE IF Len(samples) < MIN_TRAINING_SAMPLES
    THEN [ml |-> mlc, success |-> FALSE, error |-> "insufficient"]
    ELSE IF ~fit_ok
    THEN [ml |-> mlc, success |-> FALSE, error |-> "exception"]
    ELSE [ml |-> [mlc EXCEPT !.model_trained = TRUE,
                             !.model = "fitted",
                             !.fitted_names = mlc.feature_names,
                             !.model_on = samples,
                             !.scaler_on = samples],
          success |-> TRUE, error |-> "none"]

\* the artifact after a call that took the classifier from before to after:
\* a successful training pass in between has saved it
files_after(before, after, files) ==
    IF after # before /\ after.model = "fitted" THEN save_model(after) ELSE files

\* MLClassifier.initialize_default_model
initialize_default_model(mlc, fit_ok) ==
    IF ~mlc.sklearn_available
    THEN [ml |-> mlc, success |-> FALSE, error |-> "sklearn"]
    ELSE train_with_samples(mlc, create_default_training_data, fit_ok)

\* MLClassifier.is_available
ml_is_available(mlc) == mlc.sklearn_available /\ mlc.model_trained

\* The marketing settings as classify looks them up: the classifier holds
\* the plain configuration dict and asks it for the dotted name as one key.
classify_marketing_as_spam(cfg) ==
    DictGet(cfg, "detection.classify_marketing_as_spam", TRUE)

marketing_confidence_threshold(cfg) ==
    DictGet(cfg, "detection.marketing_confidence_threshold",
            MARKETING_THRESHOLD_DEFAULT)

\* MLClassifier.classify, the body of its try block (the model is fitted):
\* features, scaling with the retrain on a scaler failure, prediction, the
\* marketing policy; any exception gives the ml_error decision.  The scaler
\* fails on a vector whose length is not the one it was fitted on.
ml_predict(mlc, in) ==
    LET shape_err == \/ in.transform_fails
                     \/ Len(mlc.fitted_names) # Len(mlc.feature_names)
        reinit == initialize_default_model(mlc, in.reinit_ok)
        mlc2   == IF shape_err /\ ~in.raises THEN reinit.ml ELSE mlc
        failed == \/ in.raises
                  \/ shape_err /\ ~reinit.success
    IN  IF failed
        THEN [ml |-> mlc2,
              result |-> Decision("KEEP", <<"ML error">>,
                                  UNCERTAIN_CONFIDENCE, "ml_error")]
        ELSE IF /\ ~in.is_spam
                /\ classify_marketing_as_spam(config)
                /\ in.marketing_score >= marketing_confidence_threshold(config)
        THEN [ml |-> mlc2,
              result |-> Decision("SPAM", <<"ML: Marketing content detected">>,
                                  in.marketing_score, "ml_marketing")]
        ELSE [ml |-> mlc2,
              result |-> Decision(IF in.is_spam THEN "SPAM" ELSE "KEEP",
                                  <<"ML">>, in.confidence, "ml_random_forest")]

\* a classify that goes on to the model without testing is_available()
ml_classify_unchecked(mlc, in) == ml_predict(mlc, in)

\* MLClassifier.classify: the decision and the classifier after the call.
ml_classify(mlc, in) ==
    IF ~ml_is_available(mlc)
    THEN [ml |-> mlc,
          result |-> Decision("KEEP", <<"ML model not available or trained">>,
                              UNCERTAIN_CONFIDENCE, "ml_unavailable")]
    ELSE ml_predict(mlc, in)

\* The artifact a run can find on disk: none, one written by the running
\* version, one written by a version with another number of features or
\* with a feature under another name, one from before feature_names.json
\* was written, or files that cannot be unpickled.
ArtifactCases ==
    {"absent", "match", "mismatch", "renamed", "legacy", "legacy_mismatch",
     "unreadable"}

ArtifactOf(case) ==
    CASE case = "absent" -> NoArtifact
      [] case = "match" ->
           Artifact("present", CurrentFeatureNames, TRUE, CurrentFeatureNames,
                    create_default_training_data,
                    create_default_training_data)
      [] case = "mismatch" ->
           Artifact("present", FewerFeatureNames, TRUE, FewerFeatureNames,
                    create_default_training_data,
                    create_default_training_data)
      [] case = "renamed" ->
           Artifact("present", RenamedFeatureNames, TRUE, RenamedFeatureNames,
                    create_default_training_data,
                    create_default_training_data)
      [] case = "legacy" ->
           Artifact("present", CurrentFeatureNames, FALSE, <<>>,
                    create_default_training_data,
                    create_default_training_data)
      [] case = "legacy_mismatch" ->
           Artifact("present", FewerFeatureNames, FALSE, <<>>,
                    create_default_training_data,
                    create_default_training_data)
      [] case = "unreadable" ->
           Artifact("unreadable", <<>>, FALSE, <<>>, <<>>, <<>>)

\* a load that takes the artifact without comparing it with the extractor
load_model_unchecked(mlc, files, fit_ok) ==
    IF files.kind \in {"absent", "model_only"}
    THEN initialize_default_model(mlc, fit_ok).ml
    ELSE IF files.kind = "unreadable" THEN mlc
    ELSE [mlc EXCEPT !.model = "loaded", !.fitted_names = files.fitted_names,
                     !.model_on = files.model_on,
                     !.scaler_on = files.scaler_on,
                     !.model_trained = TRUE]

\* a load that trains from the default samples when the artifact cannot be
\* read
load_model_healing(mlc, files, fit_ok) ==
    IF files.kind \in {"absent", "model_only", "unreadable"}
    THEN initialize_default_model(mlc, fit_ok).ml
    ELSE LET loaded == [mlc EXCEPT !.model = "loaded",
                                   !.fitted_names = files.fitted_names,
                                   !.model_on = files.model_on,
                                   !.scaler_on = files.scaler_on]
             current_len == Len(mlc.feature_names)
             scaler_len  == Len(files.fitted_names)
         IN  IF \/ scaler_len # current_len
                \/ files.has_names /\ Len(files.saved_names) # current_len
             THEN initialize_default_model(loaded, fit_ok).ml
             ELSE [loaded EXCEPT !.model_trained = TRUE]

\* MLClassifier._load_model: the classifier after the load.  The loaded
\* scaler's feature count and the length of the saved name list are compared
\* with the number of current feature names.
load_model(mlc, files, fit_ok) ==
    IF files.kind \in {"absent", "model_only"}
    THEN initialize_default_model(mlc, fit_ok).ml
    ELSE IF files.kind = "unreadable" THEN mlc
    ELSE LET loaded == [mlc EXCEPT !.model = "loaded",
                                   !.fitted_names = files.fitted_names,
                                   !.model_on = files.model_on,
                                   !.scaler_on = files.scaler_on]
             current_len == Len(mlc.feature_names)
             scaler_len  == Len(files.fitted_names)
         IN  IF \/ scaler_len # current_len
                \/ files.has_names /\ Len(files.saved_names) # current_len
             THEN initialize_default_model(loaded, fit_ok).ml
             ELSE [loaded EXCEPT !.model_trained = TRUE]

\* MLClassifier.__init__
ml_construct(sklearn, files, fit_ok) ==
    LET fresh == [sklearn_available |-> sklearn,
                  model_trained |-> FALSE, model |-> "none",
                  feature_names |-> CurrentFeatureNames,
                  fitted_names |-> <<>>,
                  model_on |-> <<>>, scaler_on |-> <<>>]
    IN  IF ~sklearn THEN fresh ELSE load_model(fresh, files, fit_ok)

----------------------------------------------------------------------------
(* External (LLM) classifier *)

\* llm.provider is looked up with dict.get("llm.provider", "openai") on the
\* nested configuration dict, which has no such top-level key.
LLM_PROVIDER == "openai"

\* What the API does on one call: it raises, it answers a JSON object, or
\* it answers text that is not JSON (given by the words it contains).
LLMResponses ==
    { [kind |-> "exception"],
      [kind |-> "json", is_spam |-> TRUE,  confidence |-> 90],
      [kind |-> "json", is_spam |-> FALSE, confidence |-> 60],
      [kind |-> "json", is_spam |-> TRUE,  confidence |-> 150],
      [kind |-> "text", words |-> {"this", "is", "not", "spam"}] }

\* the response of a call that does not reach the API
NoLLMResponse == CHOOSE resp \in LLMResponses : resp.kind = "exception"

\* LLMClassifier._classify_with_openai / _classify_with_anthropic
classify_with(provider, resp) ==
    LET tag    == IF provider = "openai" THEN "OpenAI" ELSE "Claude"
        method == IF provider = "openai" THEN "llm_openai" ELSE "llm_anthropic"
        third  == IF provider = "openai" THEN "yes" ELSE "true"
    IN  CASE resp.kind = "exception" ->
               Decision("KEEP", <<tag, "error">>, UNCERTAIN_CONFIDENCE,
                        IF provider = "openai" THEN "llm_openai_error"
                                               ELSE "llm_anthropic_error")
          [] resp.kind = "json" ->
               Decision(IF resp.is_spam THEN "SPAM" ELSE "KEEP", <<tag>>,
                        Max(0, Min(FULL_CONFIDENCE, resp.confidence)), method)
          [] resp.kind = "text" ->
               Decision(IF "spam" \in resp.words \/ third \in resp.words
                        THEN "SPAM" ELSE "KEEP",
                        <<tag, "text">>, FALLBACK_TEXT_CONFIDENCE, method)

\* the provider LLMClassifier.classify ends up calling, or "none"
llm_route(clients) ==
    IF ~clients.openai_client /\ ~clients.anthropic_client THEN "none"
    ELSE IF LLM_PROVIDER = "anthropic" /\ clients.anthropic_client THEN "anthropic"
    ELSE IF LLM_PROVIDER = "openai" /\ clients.openai_client THEN "openai"
    ELSE IF clients.openai_client THEN "openai"
    ELSE "anthropic"

\* LLMClassifier.classify
llm_classify(clients, resp) ==
    IF llm_route(clients) = "none"
    THEN Decision("KEEP", <<"No LLM API keys configured">>,
                  UNCERTAIN_CONFIDENCE, "llm_unavailable")
    ELSE classify_with(llm_route(clients), resp)

\* how the external classification ended, for the record of the operation
llm_outcome(clients, resp) ==
    IF llm_route(clients) = "none" THEN "no_client"
    ELSE IF resp.kind = "exception" THEN "api_exception"
    ELSE IF resp.kind = "text" THEN "unparseable"
    ELSE "parsed"

----------------------------------------------------------------------------
(* Cache file *)

\* the walk over the entries of the file raises: an entry is not an object
LoadRaises(file) == \E fp \in DOMAIN file : file[fp] = NullEntry

\* a load that skips the entries it cannot read and keeps the others
load_cache_skipping(cfg, file, t) ==
    IF ~cfg.cache_enabled THEN EmptyDict
    ELSE LET expired(fp) ==
                 /\ cfg.max_age_days > 0
                 /\ "timestamp" \in DOMAIN file[fp]
                 /\ t - file[fp].timestamp > cfg.max_age_days
             kept == { fp \in DOMAIN file :
                          file[fp] # NullEntry /\ ~expired(fp) }
         IN  [fp \in kept |-> PopTimestamp(file[fp])]

\* EmailProcessor._load_cache: the in-memory cache after loading the file;
\* any exception during the load leaves the cache empty.
load_cache(cfg, file, t) ==
    IF ~cfg.cache_enabled THEN EmptyDict
    ELSE IF LoadRaises(file) THEN EmptyDict
    ELSE LET expired(fp) ==
                 /\ cfg.max_age_days > 0
                 /\ "timestamp" \in DOMAIN file[fp]
                 /\ t - file[fp].timestamp > cfg.max_age_days
             kept == { fp \in DOMAIN file : ~expired(fp) }
         IN  [fp \in kept |-> PopTimestamp(file[fp])]

\* EmailProcessor._save_cache: the cache file after the save.
save_cache(cfg, cache, file, t) ==
    IF ~cfg.cache_enabled THEN file
    ELSE [fp \in DOMAIN cache |-> WithTimestamp(cache[fp], t)]

\* a fingerprint computed from the sender, the subject and the whole body
compute_email_fingerprint_whole(m) ==
    m.sender_email \o m.subject \o m.body

\* FeedbackProcessor._compute_email_fingerprint: the digest is represented
\* by the text it is computed from.
compute_email_fingerprint(m) ==
    m.sender_email \o m.subject \o SubSeq(m.body, 1, Min(Len(m.body), FpBodyChars))

\* an override written with the opposite action
update_llm_cache_override_swapped(cfg, file, m, is_spam, t) ==
    IF ~cfg.cache_enabled THEN file
    ELSE Put(file, compute_email_fingerprint(m),
             [action     |-> IF is_spam THEN "KEEP" ELSE "SPAM",
              reason     |-> <<"User feedback">>,
              confidence |-> FULL_CONFIDENCE,
              method     |-> "user_feedback",
              override   |-> TRUE,
              timestamp  |-> t])

\* FeedbackProcessor._update_llm_cache_override: the cache file afterwards.
update_llm_cache_override(cfg, file, m, is_spam, t) ==
    IF ~cfg.cache_enabled THEN file
    ELSE Put(file, compute_email_fingerprint(m),
             [action     |-> IF is_spam THEN "SPAM" ELSE "KEEP",
              reason     |-> <<IF is_spam THEN "User feedback: is spam"
                                          ELSE "User feedback: not spam">>,
              confidence |-> FULL_CONFIDENCE,
              method     |-> "user_feedback",
              override   |-> TRUE,
              timestamp  |-> t])

----------------------------------------------------------------------------
(* Decision pipeline *)

\* a retrain that empties the buffer whatever the training reports
retrain_ml_with_llm_samples_clears(samples, mlc, fit_ok) ==
    LET r == train_with_samples(mlc, samples, fit_ok)
    IN  [samples |-> <<>>, ml |-> r.ml, success |-> r.success]

\* EmailProcessor._retrain_ml_with_llm_samples: buffer and classifier after,
\* and what the training reported.
retrain_ml_with_llm_samples(samples, mlc, fit_ok) ==
    LET r == train_with_samples(mlc, samples, fit_ok)
    IN  [samples |-> IF r.success THEN <<>> ELSE samples, ml |-> r.ml,
         success |-> r.success]

\* a collector that does not look at the fingerprints already collected
collect_llm_training_sample_again(m, result, samples, seen, mlc, fit_ok) ==
    LET fp == get_email_fingerprint(m)
        added == Append(samples, [email_data |-> m,
                                  is_spam |-> (result.action = "SPAM")])
    IN  IF result.confidence >= LLM_SAMPLE_MIN_CONFIDENCE
        THEN [samples |-> added, seen |-> seen \cup {fp}, ml |-> mlc,
              collected |-> added, retrain_attempted |-> FALSE,
              retrain_success |-> FALSE]
        ELSE [samples |-> samples, seen |-> seen, ml |-> mlc,
              collected |-> samples, retrain_attempted |-> FALSE,
              retrain_success |-> FALSE]

\* EmailProcessor._collect_llm_training_sample: buffer, fingerprints and
\* classifier after; collected is the buffer before a retrain was tried.
collect_llm_training_sample(m, result, samples, seen, mlc, fit_ok) ==
    LET fp == get_email_fingerprint(m)
        unchanged == [samples |-> samples, seen |-> seen, ml |-> mlc,
                      collected |-> samples, retrain_attempted |-> FALSE,
                      retrain_success |-> FALSE]
    IN  IF result.confidence >= LLM_SAMPLE_MIN_CONFIDENCE
        THEN IF fp \in seen THEN unchanged
             ELSE LET added == Append(samples,
                                      [email_data |-> m,
                                       is_spam |-> (result.action = "SPAM")])
                      attempt == Len(added) >= LLM_RETRAIN_SAMPLES
                      rt == IF attempt
                            THEN retrain_ml_with_llm_samples(added, mlc, fit_ok)
                            ELSE [samples |-> added, ml |-> mlc,
                                  success |-> FALSE]
                  IN  [samples |-> rt.samples, seen |-> seen \cup {fp},
                       ml |-> rt.ml, collected |-> added,
                       retrain_attempted |-> attempt,
                       retrain_success |-> rt.success]
        ELSE unchanged

\* the test of step 3 with >= for >
ml_is_confident_ge(result, cfg) ==
    result.confidence >= cfg.ml_confidence_threshold

\* the test of step 3: the ML result is final
ml_is_confident(result, cfg) ==
    result.confidence > cfg.ml_confidence_threshold

\* a step 4 that is taken whatever the configuration says
use_llm_for_uncertain_always(cfg) == TRUE

\* the test of step 4: external classification is enabled
use_llm_for_uncertain(cfg) == cfg.use_llm_for_uncertain

\* the methods of the results the external classifier gives when it has
\* not classified
FailedMethods ==
    {"llm_unavailable", "llm_error", "llm_openai_error", "llm_anthropic_error"}

\* a store that leaves failed results out
cache_llm_result_unless_failed(cache, fp, llm_result) ==
    IF llm_result.method \in FailedMethods THEN cache
    ELSE Put(cache, fp, llm_result)

\* self.processed_emails_cache[email_fingerprint] = llm_result.copy()
cache_llm_result(cache, fp, llm_result) == Put(cache, fp, llm_result)

\* EmailProcessor._process_single_email on message m: the decision, the
\* stage that produced it, and the processor's state after the call.
\* mlin, resp and fit_ok are what the fitted model, the external API and a
\* retraining pass do during the call.
process_single_email(m, mlin, resp, fit_ok) ==
    LET wl   == is_whitelisted(m.sender_email, m.sender_domain)
        bl   == is_blacklisted(m.sender_email, m.sender_domain)
        fp   == get_email_fingerprint(m)
        hit  == fp \in DOMAIN processed_emails_cache
        mlr  == ml_classify(ml, mlin)
        same == [cache |-> processed_emails_cache, file |-> cache_file,
                 samples |-> llm_training_samples,
                 seen |-> processed_training_fingerprints, ml |-> ml,
                 ml_called |-> FALSE, ml_result |-> NoDecision,
                 llm_called |-> FALSE, llm_outcome |-> "not_called",
                 collected |-> llm_training_samples,
                 retrain_attempted |-> FALSE, retrain_success |-> FALSE]
        with(r, stage, decision) ==
            [k \in DOMAIN r \cup {"stage", "decision"} |->
                IF k = "stage" THEN stage
                ELSE IF k = "decision" THEN decision ELSE r[k]]
        afterml == [same EXCEPT !.ml = mlr.ml, !.ml_called = TRUE,
                                !.ml_result = mlr.result]
    IN  IF wl # "none"
        THEN with(same, "whitelist",
                  Decision("KEEP", <<"WHITELIST", wl>>, FULL_CONFIDENCE, "whitelist"))
        ELSE IF bl # "none"
        THEN with(same, "blacklist",
                  Decision("SPAM", <<"BLACKLIST", bl>>, FULL_CONFIDENCE, "blacklist"))
        ELSE IF hit /\ IsOverrideEntry(processed_emails_cache[fp])
        THEN with(same, "override",
                  Annotate(processed_emails_cache[fp], " (user feedback)"))
        ELSE IF ml_is_confident(mlr.result, config)
        THEN with(afterml, "ml", mlr.result)
        ELSE IF use_llm_for_uncertain(config)
        THEN IF hit
             THEN LET cached == Annotate(processed_emails_cache[fp], " (cached)")
                      c == collect_llm_training_sample(
                               m, cached, llm_training_samples,
                               processed_training_fingerprints, mlr.ml, fit_ok)
                  IN  with([afterml EXCEPT
                               !.samples = c.samples,
                               !.seen = c.seen, !.ml = c.ml,
                               !.collected = c.collected,
                               !.retrain_attempted = c.retrain_attempted,
                               !.retrain_success = c.retrain_success],
                           "cache", cached)
             ELSE LET llm_result == llm_classify(llm, resp)
                      cache2 == cache_llm_result(processed_emails_cache, fp,
                                                 llm_result)
                      c == collect_llm_training_sample(
                               m, llm_result, llm_training_samples,
                               processed_training_fingerprints, mlr.ml, fit_ok)
                  IN  with([afterml EXCEPT
                               !.cache = cache2,
                               !.file = save_cache(config, cache2, cache_file, now),
                               !.samples = c.samples, !.seen = c.seen,
                               !.ml = c.ml, !.llm_called = TRUE,
                               !.llm_outcome = llm_outcome(llm, resp),
                               !.collected = c.collected,
                               !.retrain_attempted = c.retrain_attempted,
                               !.retrain_success = c.retrain_success],
                           "llm", llm_result)
        ELSE with(afterml, "default",
                  Decision("KEEP", <<"Uncertain classification, keeping email">>,
                           UNCERTAIN_CONFIDENCE, "default"))

----------------------------------------------------------------------------
(* Feedback loop *)

GMAIL_COM   == <<"g","m","a","i","l",".","c","o","m">>
YAHOO_COM   == <<"y","a","h","o","o",".","c","o","m">>
HOTMAIL_COM == <<"h","o","t","m","a","i","l",".","c","o","m">>
OUTLOOK_COM == <<"o","u","t","l","o","o","k",".","c","o","m">>

\* major_providers and suspicious_tlds of _process_single_feedback
MajorProviders == {GMAIL_COM, YAHOO_COM, HOTMAIL_COM, OUTLOOK_COM}
SuspiciousTlds == {<<".","t","k">>, <<".","m","l">>, <<".","g","a">>, <<".","c","f">>, <<".","t","o","p">>}

\* str.endswith
EndsWith(s, suffix) ==
    /\ Len(s) >= Len(suffix)
    /\ SubSeq(s, Len(s) - Len(suffix) + 1, Len(s)) = suffix

AOL_COM == <<"a","o","l",".","c","o","m">>

\* legitimate_domains of _extract_sender_features and suspicious_tlds of
\* the FeatureExtractor
LegitimateDomains == {GMAIL_COM, YAHOO_COM, HOTMAIL_COM, OUTLOOK_COM, AOL_COM}
ExtractorSuspiciousTlds ==
    {<<".","t","k">>, <<".","m","l">>, <<".","g","a">>, <<".","c","f">>,
     <<".","t","o","p">>, <<".","c","l","i","c","k">>,
     <<".","d","o","w","n","l","o","a","d">>}

\* FeatureExtractor._extract_sender_features: the two domain features (TRUE
\* is 1.0)
extract_sender_features(m) ==
    LET sender_domain == Lower(m.sender_domain)
    IN  [sender_suspicious_tld |->
             \E tld \in ExtractorSuspiciousTlds : EndsWith(sender_domain, tld),
         sender_legitimate_domain |-> sender_domain \in LegitimateDomains]

\* "." in s
HasDot(s) == \E i \in 1..Len(s) : s[i] = "."

\* ListManager._validate_email: the address is accepted when it has a local
\* part and a dotted domain, and is stored lowercased.
validate_email(item) ==
    LET k == CHOOSE i \in 0..Len(item) :
                 \/ i = 0 /\ ~HasAt(item)
                 \/ i > 0 /\ item[i] = "@"
                          /\ \A j \in (i+1)..Len(item) : item[j] # "@"
    IN  [ok   |-> /\ k > 1
                  /\ HasDot(SubSeq(item, k + 1, Len(item)))
                  /\ item[Len(item)] # ".",
         item |-> Lower(item)]

HTTP_SCHEME  == <<"h","t","t","p",":","/","/">>
HTTPS_SCHEME == <<"h","t","t","p","s",":","/","/">>

\* domain.split('://', 1)[1] when the name starts with a scheme
remove_scheme(domain) ==
    IF StartsWith(domain, HTTP_SCHEME)
    THEN SubSeq(domain, Len(HTTP_SCHEME) + 1, Len(domain))
    ELSE IF StartsWith(domain, HTTPS_SCHEME)
    THEN SubSeq(domain, Len(HTTPS_SCHEME) + 1, Len(domain))
    ELSE domain

\* the test on what is left: rejected when empty or without a dot
checked_domain(domain) ==
    [ok |-> domain # <<>> /\ HasDot(domain), item |-> domain]

\* a domain validation that stores the name as it was given
validate_domain_as_given(item) ==
    [ok |-> item # <<>> /\ HasDot(item), item |-> item]

\* ListManager._validate_domain: lowercased and stripped, an http or https
\* scheme and everything from the first "/" removed; rejected when nothing
\* is left or what is left has no dot.
validate_domain(item) ==
    checked_domain(BeforeSlash(remove_scheme(Strip(Lower(item)))))

\* item_type "auto": an item with an "@" is an address, any other a domain
item_type_of(item, item_type) ==
    IF item_type = "auto"
    THEN (IF HasAt(item) THEN "email" ELSE "domain")
    ELSE item_type

\* an add that puts the item on the list before it validates it
add_to_list_unvalidated(list, item, item_type) ==
    LET kind == item_type_of(item, item_type)
        v == IF kind = "email" THEN validate_email(item)
                               ELSE validate_domain(item)
    IN  [ok |-> kind \in {"email", "domain"} /\ v.ok,
         list |-> IF kind = "email"
                  THEN [list EXCEPT !.emails = @ \cup {v.item}]
                  ELSE [list EXCEPT !.domains = @ \cup {v.item}]]

\* ListManager.add_to_whitelist / add_to_blacklist on one of the two lists:
\* the list afterwards, or the ValueError of the validation or of the item
\* type.
add_to_list(list, item, item_type) ==
    LET kind == item_type_of(item, item_type)
        v == IF kind = "email" THEN validate_email(item)
                               ELSE validate_domain(item)
    IN  IF kind \notin {"email", "domain"} \/ ~v.ok
        THEN [ok |-> FALSE, list |-> list]
        ELSE IF kind = "email"
        THEN [ok |-> TRUE, list |-> [list EXCEPT !.emails = @ \cup {v.item}]]
        ELSE [ok |-> TRUE, list |-> [list EXCEPT !.domains = @ \cup {v.item}]]

\* a removal that reports the entry removed and leaves it on the list
remove_from_list_reported(list, item, item_type) ==
    LET kind == item_type_of(item, item_type)
        v == IF kind = "email" THEN validate_email(item)
                               ELSE validate_domain(item)
    IN  IF kind \notin {"email", "domain"} \/ ~v.ok
        THEN [ok |-> FALSE, removed |-> FALSE, list |-> list]
        ELSE [ok |-> TRUE,
              removed |-> IF kind = "email" THEN v.item \in list.emails
                                            ELSE v.item \in list.domains,
              list |-> list]

\* ListManager.remove_from_whitelist / remove_from_blacklist on one of the
\* two lists: whether the entry was there, and the list afterwards, or the
\* ValueError of the validation or of the item type.
remove_from_list(list, item, item_type) ==
    LET kind == item_type_of(item, item_type)
        v == IF kind = "email" THEN validate_email(item)
                               ELSE validate_domain(item)
    IN  IF kind \notin {"email", "domain"} \/ ~v.ok
        THEN [ok |-> FALSE, removed |-> FALSE, list |-> list]
        ELSE IF kind = "email"
        THEN [ok |-> TRUE, removed |-> v.item \in list.emails,
              list |-> [list EXCEPT !.emails = @ \ {v.item}]]
        ELSE [ok |-> TRUE, removed |-> v.item \in list.domains,
              list |-> [list EXCEPT !.domains = @ \ {v.item}]]

\* the addresses and the domain names import_list takes from a file: the
\* two arrays of a JSON file, or the lines of a text file with and without
\* an "@"
ImportedEmails(file) ==
    IF file.format = "json" THEN { file.emails[i] : i \in DOMAIN file.emails }
    ELSE { Strip(file.lines[i]) :
             i \in { j \in DOMAIN file.lines : HasAt(file.lines[j]) } }

ImportedDomains(file) ==
    IF file.format = "json" THEN { file.domains[i] : i \in DOMAIN file.domains }
    ELSE { Strip(file.lines[i]) :
             i \in { j \in DOMAIN file.lines :
                        ~HasAt(file.lines[j]) /\ Strip(file.lines[j]) # <<>> } }

\* ListManager.import_list on the list named: the list is emptied first when
\* it is to be replaced, every entry of the file is validated and the
\* invalid ones are skipped; a file that cannot be parsed raises after that.
import_list(list, file, replace) ==
    LET base == IF replace THEN [emails |-> {}, domains |-> {}] ELSE list
    IN  IF file.format = "unreadable"
        THEN [ok |-> FALSE, list |-> base]
        ELSE [ok |-> TRUE,
              list |-> [emails |-> base.emails \cup
                            { validate_email(e).item :
                                e \in { x \in ImportedEmails(file) :
                                           validate_email(x).ok } },
                        domains |-> base.domains \cup
                            { validate_domain(n).item :
                                n \in { x \in ImportedDomains(file) :
                                           validate_domain(x).ok } }]]

\* ListManager._save_lists: the two list files hold the two lists
ListFiles(wl, bl) == [whitelist |-> wl, blacklist |-> bl]

\* the four feedback folders, in the order they are processed
FeedbackTypes == {"whitelist", "blacklist", "not_spam", "is_spam"}

\* FeedbackProcessor.__init__: an empty buffer, a ListManager loaded from
\* the list files, an MLClassifier of its own; passes counts the calls of
\* process_feedback_folders.
feedback_construct(wl, bl, sklearn, files, fit_ok) ==
    [training_samples |-> <<>>, whitelist |-> wl, blacklist |-> bl,
     ml |-> ml_construct(sklearn, files, fit_ok), passes |-> 0]

\* FeedbackProcessor._process_single_feedback on message m found in the
\* folder of feedback_type: the processor and the cache file afterwards.
process_single_feedback(fb, file, cfg, m, feedback_type, t) ==
    LET sender_email  == m.sender_email
        sender_domain == m.sender_domain
        collected(is_spam) ==
            Append(fb.training_samples, [email_data |-> m, is_spam |-> is_spam])
        failed == [fb |-> fb, file |-> file, success |-> FALSE,
                   lists_saved |-> FALSE]
    IN  CASE feedback_type = "whitelist" ->
               LET add == IF sender_domain # <<>> /\ sender_domain \notin MajorProviders
                          THEN add_to_list(fb.whitelist, sender_domain, "domain")
                          ELSE add_to_list(fb.whitelist, sender_email, "email")
               IN  IF ~add.ok THEN failed
                   ELSE [fb |-> [fb EXCEPT !.whitelist = add.list,
                                           !.training_samples = collected(FALSE)],
                         file |-> file, success |-> TRUE, lists_saved |-> TRUE]
          [] feedback_type = "blacklist" ->
               LET add == IF \E tld \in SuspiciousTlds : EndsWith(sender_domain, tld)
                          THEN add_to_list(fb.blacklist, sender_domain, "domain")
                          ELSE add_to_list(fb.blacklist, sender_email, "email")
               IN  IF ~add.ok THEN failed
                   ELSE [fb |-> [fb EXCEPT !.blacklist = add.list,
                                           !.training_samples = collected(TRUE)],
                         file |-> file, success |-> TRUE, lists_saved |-> TRUE]
          [] feedback_type = "not_spam" ->
               [fb |-> [fb EXCEPT !.training_samples = collected(FALSE)],
                file |-> update_llm_cache_override(cfg, file, m, FALSE, t),
                success |-> TRUE, lists_saved |-> FALSE]
          [] feedback_type = "is_spam" ->
               [fb |-> [fb EXCEPT !.training_samples = collected(TRUE)],
                file |-> update_llm_cache_override(cfg, file, m, TRUE, t),
                success |-> TRUE, lists_saved |-> FALSE]

\* FeedbackProcessor._retrain_ml_model
retrain_ml_model(fb, fit_ok) ==
    LET r == train_with_samples(fb.ml, fb.training_samples, fit_ok)
    IN  [fb |-> [fb EXCEPT !.ml = r.ml,
                           !.training_samples = IF r.success THEN <<>> ELSE @],
         success |-> r.success]

\* the threshold process_feedback_folders compares the buffer with: the
\* configuration it holds is the plain dict, looked up with the dotted name
\* as one key
retrain_threshold(cfg) ==
    DictGet(cfg, "learning.retrain_threshold", RETRAIN_THRESHOLD_DEFAULT)

\* the folders' messages handled one after the other
RECURSIVE process_feedback_folder(_, _, _, _, _, _, _)
process_feedback_folder(fb, file, lists, cfg, corrections, t, processed) ==
    IF corrections = <<>>
    THEN [fb |-> fb, file |-> file, lists |-> lists, processed |-> processed]
    ELSE LET c == Head(corrections)
             r == process_single_feedback(fb, file, cfg, c.msg, c.feedback_type, t)
         IN  process_feedback_folder(
                 r.fb, r.file,
                 IF r.lists_saved THEN ListFiles(r.fb.whitelist, r.fb.blacklist)
                                  ELSE lists,
                 cfg, Tail(corrections), t,
                 processed + (IF r.success THEN 1 ELSE 0))

\* FeedbackProcessor.process_feedback_folders: one pass over the folders,
\* which hold the messages of corrections, then the retrain when the buffer
\* has reached the threshold.
process_feedback_folders(fb, file, lists, cfg, corrections, fit_ok, t) ==
    LET p == process_feedback_folder(fb, file, lists, cfg, corrections, t, 0)
        attempt == Len(p.fb.training_samples) >= retrain_threshold(cfg)
        rt == IF attempt THEN retrain_ml_model(p.fb, fit_ok)
                         ELSE [fb |-> p.fb, success |-> FALSE]
    IN  [fb |-> rt.fb, file |-> p.file, lists |-> p.lists,
         processed |-> p.processed,
         collected |-> p.fb.training_samples,
         retrain_attempted |-> attempt, retrain_success |-> rt.success]

\* EmailClient.get_email_ids("ALL") on the selected folder: imap.search
\* gives the message sequence numbers, the positions of the messages in the
\* folder at that moment
get_email_ids(folder) == [i \in 1..Len(folder) |-> i]

\* EmailClient.fetch_email(email_id): the message at that position of the
\* folder now, or None (the message record with every field empty) when the
\* folder has no such position
fetch_email(folder, email_id) ==
    IF email_id \in 1..Len(folder) THEN folder[email_id]
    ELSE Msg(<<>>, <<>>, <<>>, <<>>)

\* FeedbackProcessor._move_email_to_destination: imap.copy, then
\* imap.store(email_id, "+FLAGS", "\\Deleted") and imap.expunge, which
\* removes the message and moves every later one down by one position
move_email_to_destination(folder, email_id, copy_ok) ==
    IF copy_ok /\ email_id \in 1..Len(folder)
    THEN [folder |-> SubSeq(folder, 1, email_id - 1)
                       \o SubSeq(folder, email_id + 1, Len(folder)),
          moved |-> TRUE]
    ELSE [folder |-> folder, moved |-> FALSE]

\* the loop of _process_feedback_folder over the listed ids: acc holds what
\* each fetch returned and the counts so far
RECURSIVE process_email_ids(_, _, _, _, _, _, _, _, _, _)
process_email_ids(fb, file, lists, cfg, feedback_type, folder, email_ids, copy_ok, t, acc) ==
    IF email_ids = <<>>
    THEN [fb |-> fb, file |-> file, lists |-> lists, folder |-> folder,
          fetched |-> acc.fetched, processed |-> acc.processed,
          errors |-> acc.errors]
    ELSE LET email_id   == Head(email_ids)
             email_data == fetch_email(folder, email_id)
         IN  IF email_data = Msg(<<>>, <<>>, <<>>, <<>>)
             THEN process_email_ids(
                      fb, file, lists, cfg, feedback_type, folder,
                      Tail(email_ids), copy_ok, t,
                      [acc EXCEPT !.fetched = Append(@, email_data),
                                  !.errors = @ + 1])
             ELSE LET r == process_single_feedback(fb, file, cfg, email_data,
                                                   feedback_type, t)
                      mv == IF r.success
                            THEN move_email_to_destination(folder, email_id,
                                                           copy_ok)
                            ELSE [folder |-> folder, moved |-> FALSE]
                  IN  process_email_ids(
                          r.fb, r.file,
                          IF r.lists_saved
                          THEN ListFiles(r.fb.whitelist, r.fb.blacklist)
                          ELSE lists,
                          cfg, feedback_type, mv.folder, Tail(email_ids),
                          copy_ok, t,
                          [acc EXCEPT
                              !.fetched = Append(@, email_data),
                              !.processed = @ + (IF r.success THEN 1 ELSE 0),
                              !.errors = @ + (IF r.success THEN 0 ELSE 1)])

\* FeedbackProcessor._process_feedback_folder on a folder holding the
\* messages of folder: the ids are listed once, then handled in turn
process_feedback_folder_ids(fb, file, lists, cfg, feedback_type, folder, copy_ok, t) ==
    process_email_ids(fb, file, lists, cfg, feedback_type, folder,
                      get_email_ids(folder), copy_ok, t,
                      [fetched |-> <<>>, processed |-> 0, errors |-> 0])

\* the positional arguments process_feedback hands to
\* process_feedback_folders (client, account, account_config), and those
\* process_feedback_folders takes besides self (client, account_name)
PASSED_ARGUMENTS == 3
ACCEPTED_ARGUMENTS == 2

\* a call with another number of positional arguments than the function
\* takes raises TypeError before the function's body runs
call_raises(passed, accepted) == passed # accepted

\* all_results of process_feedback before the first account
NoResults == [accounts_processed |-> 0, total_feedback |-> 0, total_errors |-> 0]

\* all_results after the pass over one account's folders, which held n
\* messages and processed so many of them
accumulate(all_results, processed, n) ==
    [all_results EXCEPT !.accounts_processed = @ + 1,
                        !.total_feedback = @ + processed,
                        !.total_errors = @ + (n - processed)]

\* EmailProcessor.process_feedback: the accounts one after the other, each
\* with the messages its feedback folders hold.  The body of the loop is in
\* a try: an exception counts one error and the loop goes on.
RECURSIVE process_feedback(_, _, _, _, _, _, _, _)
RECURSIVE process_feedback_after(_, _, _, _, _, _)
process_feedback(fb, file, lists, cfg, accounts, fit_ok, t, all_results) ==
    IF accounts = <<>>
    THEN [fb |-> fb, file |-> file, lists |-> lists, results |-> all_results]
    ELSE IF call_raises(PASSED_ARGUMENTS, ACCEPTED_ARGUMENTS)
    THEN process_feedback(fb, file, lists, cfg, Tail(accounts), fit_ok, t,
                          [all_results EXCEPT !.total_errors = @ + 1])
    ELSE process_feedback_after(
             process_feedback_folders(fb, file, lists, cfg, Head(accounts),
                                      fit_ok, t),
             cfg, accounts, fit_ok, t, all_results)

\* the rest of the loop after the pass over the first account's folders
\* has returned r
process_feedback_after(r, cfg, accounts, fit_ok, t, all_results) ==
    process_feedback(r.fb, r.file, r.lists, cfg, Tail(accounts), fit_ok, t,
                     accumulate(all_results, r.processed, Len(Head(accounts))))

----------------------------------------------------------------------------
(* Sample weights: weights are in hundredths (1.0 is 100) *)

BASE_WEIGHT == 100
USER_FEEDBACK_WEIGHT == 300
RECURRING_WEIGHT == 500
RECURRING_COUNT == 3
SOME_HISTORY_COUNT == 2

\* FeatureExtractor._extract_sender_history_features: history is the content
\* of data/sender_feedback_history.json, keyed by sender address.
extract_sender_history_features(history, m) ==
    LET sender_email == Lower(DictGet(m, "sender_email", <<>>))
        sender_stats == DictGet(history, sender_email, EmptyDict)
    IN  IF DOMAIN sender_stats # {}
        THEN LET spam_count == DictGet(sender_stats, "spam_count", 0)
                 ham_count  == DictGet(sender_stats, "ham_count", 0)
                 total_feedbacks == spam_count + ham_count
             IN  [sender_spam_ratio |->
                      IF total_feedbacks > 0
                      THEN (spam_count * 100) \div total_feedbacks ELSE 0,
                  sender_total_feedbacks |-> total_feedbacks,
                  sender_is_recurring_spammer |->
                      IF spam_count >= RECURRING_COUNT THEN 1 ELSE 0,
                  sender_is_recurring_ham |->
                      IF ham_count >= RECURRING_COUNT THEN 1 ELSE 0]
        ELSE [sender_spam_ratio |-> 0,
              sender_total_feedbacks |-> 0,
              sender_is_recurring_spammer |-> 0,
              sender_is_recurring_ham |-> 0]

\* a weight function for which two entries are not yet "some history"
calculate_sample_weight_three(sample, features) ==
    LET base_weight ==
            IF DictGet(sample, "source", "default") = "user_feedback"
            THEN USER_FEEDBACK_WEIGHT ELSE BASE_WEIGHT
        sender_total_feedbacks == DictGet(features, "sender_total_feedbacks", 0)
        is_recurring ==
            \/ DictGet(features, "sender_is_recurring_spammer", 0) = 1
            \/ DictGet(features, "sender_is_recurring_ham", 0) = 1
    IN  IF is_recurring \/ sender_total_feedbacks >= RECURRING_COUNT
        THEN RECURRING_WEIGHT
        ELSE IF sender_total_feedbacks > SOME_HISTORY_COUNT
        THEN (base_weight * 3) \div 2
        ELSE base_weight

\* MLClassifier._calculate_sample_weight
calculate_sample_weight(sample, features) ==
    LET base_weight ==
            IF DictGet(sample, "source", "default") = "user_feedback"
            THEN USER_FEEDBACK_WEIGHT ELSE BASE_WEIGHT
        sender_total_feedbacks == DictGet(features, "sender_total_feedbacks", 0)
        is_recurring ==
            \/ DictGet(features, "sender_is_recurring_spammer", 0) = 1
            \/ DictGet(features, "sender_is_recurring_ham", 0) = 1
    IN  IF is_recurring \/ sender_total_feedbacks >= RECURRING_COUNT
        THEN RECURRING_WEIGHT
        ELSE IF sender_total_feedbacks >= SOME_HISTORY_COUNT
        THEN (base_weight * 3) \div 2
        ELSE base_weight

\* a weighing that gives an established sender twice the baseline, whatever
\* the sample's source
sample_weight_twice(sample, history) ==
    LET features ==
            extract_sender_history_features(history, sample.email_data)
    IN  IF features.sender_total_feedbacks >= RECURRING_COUNT
        THEN 2 * BASE_WEIGHT
        ELSE calculate_sample_weight(sample, features)

\* the weight train_with_samples gives a sample: the features are extracted
\* from the sample's message, then weighed
sample_weight(sample, history) ==
    calculate_sample_weight(
        sample, extract_sender_history_features(history, sample.email_data))

----------------------------------------------------------------------------
(* Feature extraction: the parts of a feature vector that do not come from *)
(* the message alone.  The clock is in seconds since the epoch (a Thursday, *)
(* 00:00).                                                                  *)

HISTORY_TTL == 60
SECONDS_PER_HOUR == 3600
SECONDS_PER_DAY == 86400

\* datetime.hour and datetime.weekday() (0 is Monday) of a time in seconds
HourOf(t) == (t \div SECONDS_PER_HOUR) % 24
WeekdayOf(t) == ((t \div SECONDS_PER_DAY) + 3) % 7

\* The Date of a message as _parse_email passes it on: none, an ISO 8601
\* text (datetime.fromisoformat reads it), or the RFC 2822 text of a Date
\* header (fromisoformat raises on it).
NoDate == [kind |-> "none", at |-> 0]
IsoDate(t) == [kind |-> "iso", at |-> t]
HeaderDate(t) == [kind |-> "rfc2822", at |-> t]

Dated(m, date) ==
    [sender_email |-> m.sender_email, sender_domain |-> m.sender_domain,
     subject |-> m.subject, body |-> m.body, date |-> date]

\* FeatureExtractor._extract_temporal_features at time t: the time of the
\* message when its date can be read, the time of the call otherwise.
extract_temporal_features(m, t) ==
    LET date == DictGet(m, "date", NoDate)
        dt   == IF date.kind = "iso" THEN date.at ELSE t
    IN  [temporal_hour_of_day |-> HourOf(dt),
         temporal_day_of_week |-> WeekdayOf(dt),
         temporal_is_weekend  |-> IF WeekdayOf(dt) >= 5 THEN 1 ELSE 0,
         temporal_is_night_time |->
             IF HourOf(dt) >= 22 \/ HourOf(dt) < 6 THEN 1 ELSE 0,
         temporal_is_business_hours |->
             IF WeekdayOf(dt) < 5 /\ 9 <= HourOf(dt) /\ HourOf(dt) < 17
             THEN 1 ELSE 0]

\* a load that also reloads when exactly the time to live has passed
load_sender_history_cached_early(ex, stored, t) ==
    IF ~ex.cached \/ (t - ex.sender_history_cache_time) >= HISTORY_TTL
    THEN [sender_history_cache |-> stored, cached |-> TRUE,
          sender_history_cache_time |-> t]
    ELSE ex

\* FeatureExtractor._load_sender_history_cached at time t, the stored table
\* being stored (empty when there is no file): the extractor afterwards; the
\* table returned is its sender_history_cache.
load_sender_history_cached(ex, stored, t) ==
    IF ~ex.cached \/ (t - ex.sender_history_cache_time) > HISTORY_TTL
    THEN [sender_history_cache |-> stored, cached |-> TRUE,
          sender_history_cache_time |-> t]
    ELSE ex

\* FeatureExtractor.extract_features at time t: the extractor afterwards and
\* the features.  The features computed from the message alone are given by
\* the fields they are computed from.
extract_features(ex, stored, m, t) ==
    LET ex2 == load_sender_history_cached(ex, stored, t)
    IN  [extractor |-> ex2,
         features |->
            [message  |-> <<m.sender_email, m.sender_domain, m.subject, m.body>>,
             history  |-> extract_sender_history_features(
                              ex2.sender_history_cache, m),
             temporal |-> extract_temporal_features(m, t)]]

----------------------------------------------------------------------------
(* Operations *)

\* What a run finds when it starts: the ML library and the model artifact,
\* whether a default training pass goes through, and the API keys set.
Environments ==
    { [sklearn |-> TRUE,  artifact |-> "match",  fit_ok |-> TRUE,
       openai |-> TRUE,  anthropic |-> FALSE],
      [sklearn |-> TRUE,  artifact |-> "absent", fit_ok |-> TRUE,
       openai |-> FALSE, anthropic |-> TRUE],
      [sklearn |-> TRUE,  artifact |-> "unreadable", fit_ok |-> TRUE,
       openai |-> FALSE, anthropic |-> FALSE] }

NoMsg == Msg(<<>>, <<>>, <<>>, <<>>)

NoCalls == [fp \in Fingerprints |-> 0]

\* the record kept of an operation: what it was applied to, what it found
\* (the cache entry of the fingerprint and the classifier before the call),
\* and what it did
Record(op, m, r, entry_before, ml_before) ==
    [op |-> op, msg |-> m, stage |-> r.stage, decision |-> r.decision,
     ml_called |-> r.ml_called, ml_result |-> r.ml_result,
     llm_called |-> r.llm_called, llm_outcome |-> r.llm_outcome,
     entry_before |-> entry_before, ml_before |-> ml_before]

Idle == [stage |-> "none", decision |-> NoDecision, ml_called |-> FALSE,
         ml_result |-> NoDecision,
         llm_called |-> FALSE, llm_outcome |-> "not_called"]

\* a sample as the feedback loop and the pipeline build it
Sample(m, is_spam) == [email_data |-> m, is_spam |-> is_spam]

\* the message of the i-th sample collected earlier
BacklogMsg(i) ==
    Msg(DefaultSampleSenders[i] \o <<"@","m",".","c">>, <<"m",".","c">>,
        <<"h","i">>, <<"x">>)

\* k samples collected earlier, from k different messages
Backlog(k) == [i \in 1..k |-> Sample(BacklogMsg(i), i <= 5)]

\* the sender-history file, the extractor's cache of it and the clock
history_vars == <<sender_history, extractor, clock>>

\* FeatureExtractor.__init__: nothing cached yet
NewExtractor ==
    [sender_history_cache |-> EmptyDict, cached |-> FALSE,
     sender_history_cache_time |-> 0]

\* an installation without a sender-history file, at the start of the clock
NoHistory ==
    /\ sender_history = EmptyDict
    /\ extractor = NewExtractor
    /\ clock = 0

\* no direct call made yet
NoCall == [op |-> "none"]
NoRet == [op |-> "none"]

\* the artifact after a construction: a default training pass that went
\* through has saved it
files_after_construct(after, files) ==
    IF after.model = "fitted" THEN save_model(after) ELSE files

\* EmailProcessor.__init__: a run starts with configuration cfg; the
\* classifiers are constructed and the cache file is loaded.
Construct(cfg) ==
    /\ config' = cfg
    /\ ml' = ml_construct(env.sklearn, model_files, env.fit_ok)
    /\ model_files' = files_after_construct(ml', model_files)
    /\ llm' = [openai_client |-> env.openai, anthropic_client |-> env.anthropic]
    /\ processed_emails_cache' = load_cache(cfg, cache_file, now)
    /\ llm_training_samples' = <<>>
    /\ processed_training_fingerprints' = {}
    /\ llm_calls' = NoCalls
    /\ last' = Record("construct", NoMsg, Idle, NoDecision, ml')
    /\ call' = NoCall
    /\ ret' = NoRet
    /\ whitelist' = list_files.whitelist
    /\ blacklist' = list_files.blacklist
    /\ UNCHANGED <<now, ticks, cache_file, env, born, feedback, list_files,
                   history_vars>>

\* EmailProcessor._process_single_email(m)
Classify(m, mlin, resp, fit_ok) ==
    \E r \in {process_single_email(m, mlin, resp, fit_ok)} :
      LET fp == get_email_fingerprint(m)
          n  == llm_calls[fp] + (IF r.llm_called THEN 1 ELSE 0)
      IN  /\ n <= MaxLlmCalls
          /\ processed_emails_cache' = r.cache
          /\ cache_file' = r.file
          /\ llm_training_samples' = r.samples
          /\ processed_training_fingerprints' = r.seen
          /\ ml' = r.ml
          /\ llm_calls' = [llm_calls EXCEPT ![fp] = n]
          /\ born' = IF r.llm_called THEN [born EXCEPT ![fp] = now] ELSE born
          /\ last' = Record("classify", m, r,
                            IF fp \in DOMAIN processed_emails_cache
                            THEN processed_emails_cache[fp] ELSE NoDecision,
                            ml)
          /\ model_files' = files_after(ml, r.ml, model_files)
          /\ call' = NoCall
          /\ ret' = [op |-> "classify", collected |-> r.collected,
                     retrain_attempted |-> r.retrain_attempted,
                     retrain_success |-> r.retrain_success]
          /\ UNCHANGED <<now, ticks, config, whitelist, blacklist, llm, env,
                         feedback, list_files, history_vars>>

\* FeedbackProcessor._update_llm_cache_override(m, is_spam): the feedback
\* loop persists an override for m.
FeedbackOverride(m, is_spam) ==
    /\ cache_file' = update_llm_cache_override(config, cache_file, m, is_spam, now)
    /\ last' = Record("feedback", m, Idle, NoDecision, ml)
    /\ UNCHANGED <<now, ticks, config, whitelist, blacklist,
                   processed_emails_cache, llm_training_samples,
                   processed_training_fingerprints, ml, llm, llm_calls, env,
                   born, model_files, feedback, list_files, history_vars>>
    /\ call' = NoCall
    /\ ret' = NoRet

\* Days that pass in one clock advance: more than half the default maximum
\* age, so that two advances exceed it and one does not.
TickDays == (MAX_AGE_DAYS_DEFAULT \div 2) + 1

Tick ==
    /\ ticks < MaxTicks
    /\ ticks' = ticks + 1
    /\ now' = now + TickDays
    /\ last' = Record("tick", NoMsg, Idle, NoDecision, ml)
    /\ UNCHANGED <<cache_file, config, whitelist, blacklist,
                   processed_emails_cache, llm_training_samples,
                   processed_training_fingerprints, ml, llm, llm_calls,
                   env, born, model_files, feedback, list_files, history_vars>>
    /\ call' = NoCall
    /\ ret' = NoRet

\* The processor, the feedback loop and the files after construction, with
\* fk samples collected by the feedback loop and pk samples collected by the
\* pipeline since.
InitProcessor(lc, cfg, e, fk, pk) ==
    /\ now = 0
    /\ ticks = 0
    /\ cache_file = EmptyDict
    /\ whitelist = lc.wl
    /\ blacklist = lc.bl
    /\ config = cfg
    /\ env = e
    /\ ml = ml_construct(e.sklearn, ArtifactOf(e.artifact), e.fit_ok)
    /\ model_files = files_after_construct(ml, ArtifactOf(e.artifact))
    /\ feedback = [feedback_construct(lc.wl, lc.bl, e.sklearn, model_files,
                                      e.fit_ok)
                      EXCEPT !.training_samples = Backlog(fk)]
    /\ call = NoCall
    /\ ret = NoRet
    /\ llm = [openai_client |-> e.openai, anthropic_client |-> e.anthropic]
    /\ processed_emails_cache = load_cache(cfg, cache_file, now)
    /\ llm_training_samples = Backlog(pk)
    /\ processed_training_fingerprints =
           { get_email_fingerprint(BacklogMsg(i)) : i \in 1..pk }
    /\ llm_calls = NoCalls
    /\ born = [fp \in Fingerprints |-> -1]
    /\ last = Record("construct", NoMsg, Idle, NoDecision, ml)
    /\ list_files = ListFiles(lc.wl, lc.bl)

\* That state on an installation without a sender-history file.
InitBacklog(lc, cfg, e, fk, pk) ==
    /\ InitProcessor(lc, cfg, e, fk, pk)
    /\ NoHistory

InitWith(lc, cfg, e) == InitBacklog(lc, cfg, e, 0, 0)

\* The state after the first EmailProcessor of a fresh installation is
\* constructed: no cache file yet.
Init ==
    \E lc \in ListConfigs, cfg \in Configs, e \in Environments :
        InitWith(lc, cfg, e)

\* The inputs a classification of m can depend on: the model's behaviour
\* matters only when the call reaches a trained model, the API's only when
\* the call reaches the API, a retraining pass only when one is triggered.
ReachesML(m) ==
    /\ is_whitelisted(m.sender_email, m.sender_domain) = "none"
    /\ is_blacklisted(m.sender_email, m.sender_domain) = "none"
    /\ ~ (/\ get_email_fingerprint(m) \in DOMAIN processed_emails_cache
          /\ IsOverrideEntry(processed_emails_cache[get_email_fingerprint(m)]))

MLInputsFor(m) ==
    IF ReachesML(m) /\ ml_is_available(ml) THEN MLInputs ELSE {NoMLInput}

LLMResponsesFor(m, mlin) ==
    IF /\ ReachesML(m)
       /\ config.use_llm_for_uncertain
       /\ get_email_fingerprint(m) \notin DOMAIN processed_emails_cache
       /\ ml_classify(ml, mlin).result.confidence <= config.ml_confidence_threshold
       /\ llm_route(llm) # "none"
    THEN LLMResponses ELSE {NoLLMResponse}

FitOutcomesFor ==
    IF Len(llm_training_samples) + 1 >= LLM_RETRAIN_SAMPLES
    THEN BOOLEAN ELSE {TRUE}

\* Messages the user files into a message-level feedback folder.
FeedbackMessages ==
    { m \in Messages : m.sender_email \in {ALICE_UP, BOB} }

ClassifySome ==
    \E m \in Messages : \E mlin \in MLInputsFor(m) :
      \E resp \in LLMResponsesFor(m, mlin), ok \in FitOutcomesFor :
        Classify(m, mlin, resp, ok)

\* One installation at a fixed time: runs are started, messages are
\* classified, the user corrects messages.
Next ==
    \/ \E cfg \in Configs : Construct(cfg)
    \/ ClassifySome
    \/ \E m \in FeedbackMessages, is_spam \in BOOLEAN : FeedbackOverride(m, is_spam)

Spec == Init /\ [][Next]_vars

----------------------------------------------------------------------------
(* The cache over time: an installation without the ML library, with an   *)
(* OpenAI key, one sender on both lists and two senders on none; days pass *)
(* between the operations, and the user files messages as spam.            *)

CacheLists ==
    [wl |-> [emails |-> {ALICE}, domains |-> {}],
     bl |-> [emails |-> {ALICE}, domains |-> {}]]

CacheEnvironment ==
    [sklearn |-> FALSE, artifact |-> "absent", fit_ok |-> FALSE,
     openai |-> TRUE, anthropic |-> FALSE]

CacheMessages ==
    { m \in Messages : m.sender_email \in {BOB, EVE} }

InitCache ==
    \E cfg \in CacheConfigs : InitWith(CacheLists, cfg, CacheEnvironment)

NextCache ==
    \/ \E cfg \in CacheConfigs : Construct(cfg)
    \/ \E m \in CacheMessages : \E mlin \in MLInputsFor(m) :
         \E resp \in LLMResponsesFor(m, mlin), ok \in FitOutcomesFor :
           Classify(m, mlin, resp, ok)
    \/ \E m \in CacheMessages : FeedbackOverride(m, TRUE)
    \/ Tick

SpecCache == InitCache /\ [][NextCache]_vars

----------------------------------------------------------------------------
(* The ML classifier on its own: a run finds an artifact on disk, constructs *)
(* an MLClassifier, trains it with samples and classifies with it.          *)

\* the variables of the pipeline other than its classifier
pipeline_vars ==
    <<now, ticks, cache_file, config, whitelist, blacklist,
      processed_emails_cache, llm_training_samples,
      processed_training_fingerprints, llm, llm_calls, last, env, born,
      list_files, sender_history, extractor, clock>>

\* MLClassifier(config): constructed from the artifact on disk
MLConstruct ==
    /\ ml' = ml_construct(env.sklearn, model_files, env.fit_ok)
    /\ model_files' = files_after_construct(ml', model_files)
    /\ call' = [op |-> "construct", model_files |-> model_files]
    /\ ret' = [op |-> "construct"]
    /\ UNCHANGED <<pipeline_vars, feedback>>

\* MLClassifier.train_with_samples(samples); save says how far the save of
\* a successful pass gets
MLTrain(samples, fit_ok, save) ==
    /\ call.op # "none"
    /\ \E r \in {train_with_samples(ml, samples, fit_ok)} :
         /\ ml' = r.ml
         /\ model_files' = IF r.success
                           THEN save_model_interrupted(r.ml, model_files, save)
                           ELSE model_files
         /\ call' = [op |-> "train_with_samples", samples |-> samples,
                     ml |-> ml, model_files |-> model_files]
         /\ ret' = [op |-> "train_with_samples",
                    success |-> r.success, error |-> r.error]
    /\ UNCHANGED <<pipeline_vars, feedback>>

\* MLClassifier.classify(m)
MLClassify(m, mlin) ==
    /\ call.op # "none"
    /\ \E r \in {ml_classify(ml, mlin)} :
         /\ ml' = r.ml
         /\ model_files' = files_after(ml, r.ml, model_files)
         /\ call' = [op |-> "classify", msg |-> m, input |-> mlin,
                     ml |-> ml, model_files |-> model_files]
         /\ ret' = [op |-> "classify", result |-> r.result]
    /\ UNCHANGED <<pipeline_vars, feedback>>

\* sample lists of the sizes around the minimum of a training pass
TrainSizes == {0, 1, MIN_TRAINING_SAMPLES - 1, MIN_TRAINING_SAMPLES,
               MIN_TRAINING_SAMPLES + 1}

TrainingSets ==
    { SubSeq(create_default_training_data \o Backlog(1), 1, n) : n \in TrainSizes }
      \cup { Backlog(MIN_TRAINING_SAMPLES) }

\* configurations with the marketing keys of the detection section set
CONFIGURED_MARKETING_THRESHOLD == 95

MLConfigs ==
    { DefaultConfig,
      [DefaultConfig EXCEPT !.detection = [classify_marketing_as_spam |-> FALSE]],
      [DefaultConfig EXCEPT !.detection =
          [marketing_confidence_threshold |-> CONFIGURED_MARKETING_THRESHOLD]] }

MLEnvironments ==
    { [sklearn |-> sk, artifact |-> a, fit_ok |-> TRUE,
       openai |-> FALSE, anthropic |-> FALSE] :
         sk \in BOOLEAN, a \in ArtifactCases }

\* Before the first construction of a run: the artifact is on disk, no
\* classifier exists yet.
InitML ==
    \E e \in MLEnvironments, cfg \in MLConfigs :
        /\ now = 0
        /\ ticks = 0
        /\ cache_file = EmptyDict
        /\ whitelist = NoList
        /\ blacklist = NoList
        /\ config = cfg
        /\ env = e
        /\ model_files = ArtifactOf(e.artifact)
        /\ ml = ml_construct(FALSE, NoArtifact, FALSE)
        /\ feedback = feedback_construct(NoList, NoList, FALSE, NoArtifact, FALSE)
        /\ call = NoCall
        /\ ret = NoRet
        /\ llm = [openai_client |-> FALSE, anthropic_client |-> FALSE]
        /\ processed_emails_cache = EmptyDict
        /\ llm_training_samples = <<>>
        /\ processed_training_fingerprints = {}
        /\ llm_calls = NoCalls
        /\ born = [fp \in Fingerprints |-> -1]
        /\ last = Record("none", NoMsg, Idle, NoDecision, ml)
        /\ list_files = ListFiles(NoList, NoList)
        /\ NoHistory

NextML ==
    \/ MLConstruct
    \/ \E samples \in TrainingSets, ok \in BOOLEAN, save \in SaveOutcomes :
         MLTrain(samples, ok, save)
    \/ \E m \in Messages, mlin \in MLInputs : MLClassify(m, mlin)

SpecML == InitML /\ [][NextML]_vars

----------------------------------------------------------------------------
(* Learning: the feedback loop makes passes over its folders, in which the  *)
(* user has filed messages, and retrains its classifier; the pipeline       *)
(* collects the external classifier's verdicts and retrains its own.        *)

MaxPasses == 2

GMAIL_USER == <<"u","@","g","m","a","i","l",".","c","o","m">>
GMAIL_UP   == <<"v","@","G","m","a","i","l",".","c","o","m">>

\* a message without a usable From header
NOSENDER == Msg(<<>>, <<>>, <<"h","i">>, <<"x">>)

\* Messages the user files into feedback folders, as fetch_email returns
\* them: sender_domain is always what follows the "@".
FeedbackInbox ==
    { Msg(ALICE_UP, ParseDomain(ALICE_UP), <<"h","i">>, <<"x">>),
      Msg(EVE, ParseDomain(EVE), <<"w","i","n">>, <<"$">>),
      Msg(GMAIL_USER, ParseDomain(GMAIL_USER), <<"h","i">>, <<"x">>),
      Msg(GMAIL_UP, ParseDomain(GMAIL_UP), <<"h","i">>, <<"x">>),
      NOSENDER }

\* What the user does: every message may be filed into a sender-level
\* folder, two of them into a message-level folder.
Corrections ==
    { [msg |-> m, feedback_type |-> t] :
        m \in FeedbackInbox, t \in {"whitelist", "blacklist"} }
    \cup
    { [msg |-> m, feedback_type |-> t] :
        m \in { x \in FeedbackInbox : x.sender_email \in {ALICE_UP, EVE} },
        t \in {"not_spam", "is_spam"} }

\* what a pass finds in the folders: nothing, or one filed message
PassInputs(inbox) == {<<>>} \cup { <<c>> : c \in inbox }

\* FeedbackProcessor.process_feedback_folders(client, account_name)
ProcessFeedbackFolders(corrections, fit_ok) ==
    /\ feedback.passes < MaxPasses
    /\ \E r \in {process_feedback_folders(feedback, cache_file, list_files,
                                          config, corrections, fit_ok, now)} :
         /\ feedback' = [r.fb EXCEPT !.passes = @ + 1]
         /\ cache_file' = r.file
         /\ model_files' = files_after(feedback.ml, r.fb.ml, model_files)
         /\ list_files' = r.lists
         /\ call' = [op |-> "process_feedback_folders",
                     corrections |-> corrections, feedback |-> feedback,
                     cache_file |-> cache_file, list_files |-> list_files,
                     sender_history |-> sender_history]
         /\ ret' = [op |-> "process_feedback_folders",
                    processed |-> r.processed, collected |-> r.collected,
                    retrain_attempted |-> r.retrain_attempted,
                    retrain_success |-> r.retrain_success]
    /\ UNCHANGED <<now, ticks, config, whitelist, blacklist,
                   processed_emails_cache, llm_training_samples,
                   processed_training_fingerprints, ml, llm, llm_calls, last,
                   env, born, history_vars>>

\* The ML library is installed and the artifact cannot be read, so both
\* classifiers start Untrained.  In the first kind of run the user files
\* messages and the pipeline has no external classifier; in the second the
\* pipeline has one and the feedback folders stay empty.
FeedbackEnvironment ==
    [sklearn |-> TRUE, artifact |-> "unreadable", fit_ok |-> TRUE,
     openai |-> FALSE, anthropic |-> FALSE, inbox |-> Corrections]

CollectingEnvironment ==
    [sklearn |-> TRUE, artifact |-> "unreadable", fit_ok |-> TRUE,
     openai |-> TRUE, anthropic |-> FALSE, inbox |-> {}]

\* buffer sizes a run can start from: empty, or one below the default
\* threshold
BacklogSizes == {0, LLM_RETRAIN_SAMPLES - 1}

InitLearning ==
    \/ \E cfg \in FeedbackConfigs, fk \in BacklogSizes :
         InitBacklog(CacheLists, [cfg EXCEPT !.use_llm_for_uncertain = FALSE],
                     FeedbackEnvironment, fk, 0)
    \/ \E pk \in BacklogSizes :
         InitBacklog(CacheLists, DefaultConfig, CollectingEnvironment, 0, pk)

NextLearning ==
    \/ \E c \in PassInputs(env.inbox), ok \in BOOLEAN :
         ProcessFeedbackFolders(c, ok)
    \/ \E m \in CacheMessages : \E mlin \in MLInputsFor(m) :
         \E resp \in LLMResponsesFor(m, mlin), ok \in FitOutcomesFor :
           Classify(m, mlin, resp, ok)

SpecLearning == InitLearning /\ [][NextLearning]_vars

----------------------------------------------------------------------------
(* Pure functions: the fingerprint of a pair of messages and the training   *)
(* weight of a sample under a pair of sender histories, each computed once. *)

MaxCount == 3

Repeat(c, n) == [i \in 1..n |-> c]

\* message bodies around the fingerprint's cut: shorter than it, exactly as
\* long, longer with different tails, and two that differ at the last
\* character before the cut
FingerprintBodies ==
    { Repeat("x", FpBodyChars - 1),
      Repeat("x", FpBodyChars),
      Repeat("x", FpBodyChars) \o <<"y">>,
      Repeat("x", FpBodyChars) \o <<"z", "z">>,
      Repeat("x", FpBodyChars - 1) \o <<"y">>,
      Repeat("x", FpBodyChars - 1) \o <<"y", "z">> }

FingerprintMessages ==
    { Msg(s, d, subj, b) :
        s \in {ALICE, BOB}, d \in {<<>>, DOM_EC},
        subj \in {<<"h","i">>, <<"w","i","n">>}, b \in FingerprintBodies }

\* data/sender_feedback_history.json: absent or empty, or with an entry for
\* one sender (keys as the file holds them), possibly an empty entry
SenderHistories ==
    {EmptyDict}
      \cup { [k \in {ALICE} |-> EmptyDict] }
      \cup { [k \in {ALICE} |-> [spam_count |-> sc, ham_count |-> hc]] :
               sc \in 0..MaxCount, hc \in 0..MaxCount }

\* samples as train_with_samples receives them: untagged, or tagged with a
\* source
WeighedSamples ==
    { Sample(m, sp) : m \in {Msg(ALICE_UP, ParseDomain(ALICE_UP), <<"h","i">>, <<"x">>)},
                      sp \in BOOLEAN }
      \cup { [email_data |-> Msg(ALICE_UP, ParseDomain(ALICE_UP), <<"h","i">>, <<"x">>),
              is_spam |-> sp, source |-> src] :
               sp \in BOOLEAN, src \in {"user_feedback", "llm"} }

PureCalls ==
    { [op |-> "get_email_fingerprint", m |-> a, other |-> b] :
        a \in FingerprintMessages, b \in FingerprintMessages }
      \cup { [op |-> "compute_email_fingerprint", m |-> a, is_spam |-> sp] :
               a \in FingerprintMessages, sp \in BOOLEAN }
      \cup { [op |-> "calculate_sample_weight", sample |-> s,
              history |-> h, other_history |-> g] :
               s \in WeighedSamples, h \in SenderHistories, g \in SenderHistories }

\* EmailProcessor._get_email_fingerprint on the two messages of the call
GetEmailFingerprint ==
    /\ call.op = "get_email_fingerprint"
    /\ ret = NoRet
    /\ ret' = [op |-> "get_email_fingerprint",
               fingerprint |-> get_email_fingerprint(call.m),
               other_fingerprint |-> get_email_fingerprint(call.other)]
    /\ UNCHANGED <<pipeline_vars, ml, model_files, feedback, call>>

\* FeedbackProcessor._compute_email_fingerprint on the message of the call,
\* the cache file after the override for it is written to an empty file, and
\* the key EmailProcessor looks the message up with
ComputeEmailFingerprint ==
    /\ call.op = "compute_email_fingerprint"
    /\ ret = NoRet
    /\ ret' = [op |-> "compute_email_fingerprint",
               fingerprint |-> compute_email_fingerprint(call.m),
               file |-> update_llm_cache_override(config, EmptyDict, call.m,
                                                  call.is_spam, now),
               lookup |-> get_email_fingerprint(call.m)]
    /\ UNCHANGED <<pipeline_vars, ml, model_files, feedback, call>>

\* the weight of the call's sample under each of the two histories
CalculateSampleWeight ==
    /\ call.op = "calculate_sample_weight"
    /\ ret = NoRet
    /\ ret' = [op |-> "calculate_sample_weight",
               features |-> extract_sender_history_features(
                                call.history, call.sample.email_data),
               other_features |-> extract_sender_history_features(
                                call.other_history, call.sample.email_data),
               weight |-> sample_weight(call.sample, call.history),
               other_weight |-> sample_weight(call.sample, call.other_history)]
    /\ UNCHANGED <<pipeline_vars, ml, model_files, feedback, call>>

InitPure ==
    /\ call \in PureCalls
    /\ ret = NoRet
    /\ now = 0
    /\ ticks = 0
    /\ cache_file = EmptyDict
    /\ whitelist = NoList
    /\ blacklist = NoList
    /\ config = DefaultConfig
    /\ env = [sklearn |-> FALSE, artifact |-> "absent", fit_ok |-> TRUE,
              openai |-> FALSE, anthropic |-> FALSE]
    /\ model_files = NoArtifact
    /\ ml = ml_construct(FALSE, NoArtifact, FALSE)
    /\ feedback = feedback_construct(NoList, NoList, FALSE, NoArtifact, FALSE)
    /\ llm = [openai_client |-> FALSE, anthropic_client |-> FALSE]
    /\ processed_emails_cache = EmptyDict
    /\ llm_training_samples = <<>>
    /\ processed_training_fingerprints = {}
    /\ llm_calls = NoCalls
    /\ born = [fp \in Fingerprints |-> -1]
    /\ last = Record("none", NoMsg, Idle, NoDecision, ml)
    /\ list_files = ListFiles(NoList, NoList)
    /\ NoHistory

NextPure ==
    \/ GetEmailFingerprint
    \/ ComputeEmailFingerprint
    \/ CalculateSampleWeight

SpecPure == InitPure /\ [][NextPure]_vars

----------------------------------------------------------------------------
(* Sender history: the feedback loop processes filed messages, the         *)
(* classifier extracts features, the stored table is replaced from outside, *)
(* and time passes.                                                         *)

MaxClockSteps == 3

\* seconds that pass in one step: half the time to live of the cached table,
\* or an hour
TickSeconds == {HISTORY_TTL \div 2, SECONDS_PER_HOUR}

\* contents of data/sender_feedback_history.json
HistoryTables ==
    { EmptyDict,
      [k \in {ALICE} |-> [spam_count |-> 2, ham_count |-> 0]],
      [k \in {ALICE} |-> [spam_count |-> 0, ham_count |-> 3]] }

\* Messages as the mail client hands them over: the Date header as received,
\* no Date, and a record whose date is an ISO text.
HistoryMessages ==
    { Dated(Msg(ALICE_UP, ParseDomain(ALICE_UP), <<"h","i">>, <<"x">>),
            HeaderDate(SECONDS_PER_DAY)),
      Dated(Msg(BOB, ParseDomain(BOB), <<"h","i">>, <<"x">>), NoDate),
      Dated(Msg(ALICE, ParseDomain(ALICE), <<"h","i">>, <<"x">>),
            IsoDate(SECONDS_PER_DAY)) }

\* what the user files in these runs
HistoryCorrections ==
    { [msg |-> Msg(ALICE_UP, ParseDomain(ALICE_UP), <<"h","i">>, <<"x">>),
       feedback_type |-> "is_spam"] }

\* time.time() advances
HistoryTick(d) ==
    /\ ticks < MaxClockSteps
    /\ ticks' = ticks + 1
    /\ clock' = clock + d
    /\ UNCHANGED <<call, ret>>
    /\ UNCHANGED <<now, cache_file, config, whitelist, blacklist,
                   processed_emails_cache, llm_training_samples,
                   processed_training_fingerprints, ml, llm, llm_calls, last,
                   env, born, model_files, feedback, list_files,
                   sender_history, extractor>>

\* data/sender_feedback_history.json is replaced by another program
HistoryReplaced(table) ==
    /\ table # sender_history
    /\ sender_history' = table
    /\ UNCHANGED <<call, ret>>
    /\ UNCHANGED <<now, ticks, cache_file, config, whitelist, blacklist,
                   processed_emails_cache, llm_training_samples,
                   processed_training_fingerprints, ml, llm, llm_calls, last,
                   env, born, model_files, feedback, list_files,
                   extractor, clock>>

\* FeatureExtractor.extract_features(m); the call record keeps the features
\* of the previous extraction
ExtractFeatures(m) ==
    /\ \E r \in {extract_features(extractor, sender_history, m, clock)} :
         /\ extractor' = r.extractor
         /\ call' = [op |-> "extract_features", msg |-> m,
                     extractor |-> extractor, sender_history |-> sender_history,
                     clock |-> clock,
                     previous |-> IF ret.op = "extract_features" /\ ret.msg = m
                                  THEN ret ELSE NoRet]
         /\ ret' = [op |-> "extract_features", msg |-> m,
                    features |-> r.features]
    /\ UNCHANGED <<now, ticks, cache_file, config, whitelist, blacklist,
                   processed_emails_cache, llm_training_samples,
                   processed_training_fingerprints, ml, llm, llm_calls, last,
                   env, born, model_files, feedback, list_files,
                   sender_history, clock>>

\* MLClassifier.classify(m) of the pipeline's classifier: the features are
\* extracted when the classifier is available
HistoryClassify(m, mlin) ==
    /\ \E r \in {ml_classify(ml, mlin)} :
         /\ ml' = r.ml
         /\ model_files' = files_after(ml, r.ml, model_files)
         /\ extractor' =
                IF ml_is_available(ml)
                THEN extract_features(extractor, sender_history, m, clock).extractor
                ELSE extractor
         /\ call' = [op |-> "classify", msg |-> m, input |-> mlin, ml |-> ml,
                     model_files |-> model_files,
                     sender_history |-> sender_history]
         /\ ret' = [op |-> "classify", result |-> r.result]
    /\ UNCHANGED <<now, ticks, cache_file, config, whitelist, blacklist,
                   processed_emails_cache, llm_training_samples,
                   processed_training_fingerprints, llm, llm_calls, last,
                   env, born, feedback, list_files, sender_history, clock>>

\* the model predicts spam
SpamInput ==
    CHOOSE in \in MLInputs : ~in.raises /\ ~in.transform_fails /\ in.is_spam

\* The ML library is installed, the artifact of the running version is on
\* disk, no API key is set.
HistoryEnvironment ==
    [sklearn |-> TRUE, artifact |-> "match", fit_ok |-> TRUE,
     openai |-> FALSE, anthropic |-> FALSE]

InitHistory ==
    /\ InitProcessor([wl |-> NoList, bl |-> NoList], DefaultConfig,
                     HistoryEnvironment, 0, 0)
    /\ sender_history \in HistoryTables
    /\ extractor = NewExtractor
    /\ clock = 0

NextHistory ==
    \/ \E d \in TickSeconds : HistoryTick(d)
    \/ \E table \in HistoryTables : HistoryReplaced(table)
    \/ \E m \in HistoryMessages : ExtractFeatures(m)
    \/ \E m \in HistoryMessages : HistoryClassify(m, SpamInput)
    \/ \E c \in HistoryCorrections : ProcessFeedbackFolders(<<c>>, TRUE)

SpecHistory == InitHistory /\ [][NextHistory]_vars

----------------------------------------------------------------------------
(* Rule-list maintenance: entries are added to and removed from the two    *)
(* lists of a ListManager, and the feedback loop, which has a ListManager   *)
(* of its own, saves its lists to the same two files.                       *)

NODOT_ADDRESS == <<"a","@","e">>
NODOT_DOMAIN  == <<"e","c">>

\* what add and remove are called with: an address and a domain with the
\* item type left to be found, an address given as one, the empty domain,
\* an address whose domain has no dot, a name without a dot, a domain given
\* as an address, and an address with a misspelt item type
ListRequests ==
    { [item |-> ALICE_UP, item_type |-> "auto"],
      [item |-> DOM_EC, item_type |-> "auto"],
      [item |-> ALICE, item_type |-> "email"],
      [item |-> <<>>, item_type |-> "domain"],
      [item |-> NODOT_ADDRESS, item_type |-> "auto"],
      [item |-> NODOT_DOMAIN, item_type |-> "auto"],
      [item |-> DOM_EC, item_type |-> "email"],
      [item |-> ALICE, item_type |-> "emial"] }

\* what the user files while the lists are maintained
ListCorrections ==
    { [msg |-> Msg(EVE, ParseDomain(EVE), <<"w","i","n">>, <<"$">>),
       feedback_type |-> "whitelist"] }

list_unchanged ==
    UNCHANGED <<now, ticks, cache_file, config, processed_emails_cache,
                llm_training_samples, processed_training_fingerprints, ml,
                llm, llm_calls, last, env, born, model_files, feedback,
                history_vars>>

ListCall(op, item, item_type) ==
    [op |-> op, item |-> item, item_type |-> item_type,
     whitelist |-> whitelist, blacklist |-> blacklist,
     list_files |-> list_files]

\* ListManager.add_to_whitelist(item, item_type)
AddToWhitelist(item, item_type) ==
    /\ \E r \in {add_to_list(whitelist, item, item_type)} :
         /\ whitelist' = r.list
         /\ blacklist' = blacklist
         /\ list_files' = IF r.ok THEN ListFiles(r.list, blacklist)
                                  ELSE list_files
         /\ call' = ListCall("add_to_whitelist", item, item_type)
         /\ ret' = [op |-> "add_to_whitelist", raised |-> ~r.ok,
                    result |-> r.ok]
    /\ list_unchanged

\* ListManager.add_to_blacklist(item, item_type)
AddToBlacklist(item, item_type) ==
    /\ \E r \in {add_to_list(blacklist, item, item_type)} :
         /\ blacklist' = r.list
         /\ whitelist' = whitelist
         /\ list_files' = IF r.ok THEN ListFiles(whitelist, r.list)
                                  ELSE list_files
         /\ call' = ListCall("add_to_blacklist", item, item_type)
         /\ ret' = [op |-> "add_to_blacklist", raised |-> ~r.ok,
                    result |-> r.ok]
    /\ list_unchanged

\* ListManager.remove_from_whitelist(item, item_type)
RemoveFromWhitelist(item, item_type) ==
    /\ \E r \in {remove_from_list(whitelist, item, item_type)} :
         /\ whitelist' = r.list
         /\ blacklist' = blacklist
         /\ list_files' = IF r.removed THEN ListFiles(r.list, blacklist)
                                       ELSE list_files
         /\ call' = ListCall("remove_from_whitelist", item, item_type)
         /\ ret' = [op |-> "remove_from_whitelist", raised |-> ~r.ok,
                    result |-> r.removed]
    /\ list_unchanged

\* ListManager.remove_from_blacklist(item, item_type)
RemoveFromBlacklist(item, item_type) ==
    /\ \E r \in {remove_from_list(blacklist, item, item_type)} :
         /\ blacklist' = r.list
         /\ whitelist' = whitelist
         /\ list_files' = IF r.removed THEN ListFiles(whitelist, r.list)
                                       ELSE list_files
         /\ call' = ListCall("remove_from_blacklist", item, item_type)
         /\ ret' = [op |-> "remove_from_blacklist", raised |-> ~r.ok,
                    result |-> r.removed]
    /\ list_unchanged

\* No ML library, no API key: only the lists decide.
ListEnvironment ==
    [sklearn |-> FALSE, artifact |-> "absent", fit_ok |-> TRUE,
     openai |-> FALSE, anthropic |-> FALSE]

InitLists ==
    \E lc \in ListConfigs :
        InitWith(lc, DefaultConfig, ListEnvironment)

NextLists ==
    \/ \E q \in ListRequests : AddToWhitelist(q.item, q.item_type)
    \/ \E q \in ListRequests : AddToBlacklist(q.item, q.item_type)
    \/ \E q \in ListRequests : RemoveFromWhitelist(q.item, q.item_type)
    \/ \E q \in ListRequests : RemoveFromBlacklist(q.item, q.item_type)
    \/ \E c \in ListCorrections : ProcessFeedbackFolders(<<c>>, TRUE)

SpecLists == InitLists /\ [][NextLists]_vars

----------------------------------------------------------------------------
(* Rule-list entries: a ListManager that starts with empty lists is given  *)
(* addresses and names in the forms users type and files hold them.         *)

URL_EC      == <<"H","T","T","P","S",":","/","/","E",".","C","/","p">>
PADDED_EC   == <<" ","E",".","c"," ">>
SCHEME_ONLY == <<"h","t","t","p",":","/","/">>

\* what add and remove are called with: an address in capitals, a URL, a
\* name with blanks around it, an address given as a domain, a scheme with
\* nothing behind it, an address without a dotted domain
EntryRequests ==
    { [item |-> ALICE_UP, item_type |-> "auto"],
      [item |-> URL_EC, item_type |-> "auto"],
      [item |-> PADDED_EC, item_type |-> "domain"],
      [item |-> ALICE_UP, item_type |-> "domain"],
      [item |-> SCHEME_ONLY, item_type |-> "auto"],
      [item |-> NODOT_ADDRESS, item_type |-> "auto"] }

\* the files import_list is given
ImportFiles ==
    { [format |-> "json", emails |-> <<ALICE_UP, NODOT_ADDRESS>>,
       domains |-> <<URL_EC, NODOT_DOMAIN>>],
      [format |-> "text", lines |-> <<BOB \o <<" ">>, PADDED_EC, <<" ">>>>],
      [format |-> "unreadable"] }

ListTypes == {"whitelist", "blacklist", "greylist"}

\* ListManager.import_list(file, list_type, replace)
ImportList(file, list_type, replace) ==
    /\ \E r \in {import_list(IF list_type = "whitelist" THEN whitelist
                                                       ELSE blacklist,
                              file, replace)} :
         LET known == list_type \in {"whitelist", "blacklist"}
             wl == IF list_type = "whitelist" THEN r.list ELSE whitelist
             bl == IF list_type = "blacklist" THEN r.list ELSE blacklist
         IN  /\ whitelist' = wl
             /\ blacklist' = bl
             /\ list_files' = IF known /\ r.ok THEN ListFiles(wl, bl)
                                               ELSE list_files
             /\ call' = [op |-> "import_list", file |-> file,
                         list_type |-> list_type, replace |-> replace,
                         whitelist |-> whitelist, blacklist |-> blacklist,
                         list_files |-> list_files]
             /\ ret' = [op |-> "import_list", raised |-> ~(known /\ r.ok)]
    /\ list_unchanged

\* ListManager.clear_whitelist(confirm) / clear_blacklist(confirm)
ClearList(list_type, confirm) ==
    /\ whitelist' = IF confirm /\ list_type = "whitelist"
                    THEN [emails |-> {}, domains |-> {}] ELSE whitelist
    /\ blacklist' = IF confirm /\ list_type = "blacklist"
                    THEN [emails |-> {}, domains |-> {}] ELSE blacklist
    /\ list_files' = IF confirm THEN ListFiles(whitelist', blacklist')
                                ELSE list_files
    /\ call' = [op |-> "clear_" \o list_type, confirm |-> confirm,
                whitelist |-> whitelist, blacklist |-> blacklist,
                list_files |-> list_files]
    /\ ret' = [op |-> "clear_" \o list_type, raised |-> ~confirm]
    /\ list_unchanged

InitEntries ==
    InitWith([wl |-> NoList, bl |-> NoList], DefaultConfig, ListEnvironment)

NextEntries ==
    \/ \E q \in EntryRequests : AddToWhitelist(q.item, q.item_type)
    \/ \E q \in EntryRequests : AddToBlacklist(q.item, q.item_type)
    \/ \E q \in EntryRequests : RemoveFromWhitelist(q.item, q.item_type)
    \/ \E q \in EntryRequests : RemoveFromBlacklist(q.item, q.item_type)
    \/ \E file \in ImportFiles, list_type \in ListTypes, replace \in BOOLEAN :
         ImportList(file, list_type, replace)
    \/ \E list_type \in {"whitelist", "blacklist"}, confirm \in BOOLEAN :
         ClearList(list_type, confirm)

SpecEntries == InitEntries /\ [][NextEntries]_vars

----------------------------------------------------------------------------
(* Startup: the cache file a run finds may have been written by the        *)
(* feedback loop, or damaged by an interrupted write or another program.    *)

\* an override as the feedback loop writes it
StoredOverride(is_spam, t) ==
    [action |-> IF is_spam THEN "SPAM" ELSE "KEEP",
     reason |-> <<"User feedback">>, confidence |-> FULL_CONFIDENCE,
     method |-> "user_feedback", override |-> TRUE, timestamp |-> t]

\* the messages of these runs
StartupMessages == { m \in Messages : m.sender_email \in {BOB, EVE} }

\* contents the cache file is found to have after damage: one entry that is
\* not an object, alone or beside an override
DamagedFiles ==
    { [fp \in {get_email_fingerprint(m)} |-> NullEntry] :
        m \in {x \in Messages : x.sender_email = EVE} }
    \cup
    { [fp \in {get_email_fingerprint(m), get_email_fingerprint(n)} |->
          IF fp = get_email_fingerprint(m) THEN NullEntry
          ELSE StoredOverride(TRUE, 0)] :
        m \in {x \in Messages : x.sender_email = EVE},
        n \in {x \in Messages : x.sender_email = BOB} }

\* the external classifier answers with a verdict
VerdictResponse ==
    CHOOSE resp \in LLMResponses :
        resp.kind = "json" /\ resp.is_spam /\ resp.confidence < FULL_CONFIDENCE

MaxDamages == 1

\* the cache file is damaged between two runs
CacheFileDamaged(file) ==
    /\ ticks < MaxDamages
    /\ ticks' = ticks + 1
    /\ cache_file' = file
    /\ last' = Record("damage", NoMsg, Idle, NoDecision, ml)
    /\ call' = NoCall
    /\ ret' = NoRet
    /\ UNCHANGED <<now, config, whitelist, blacklist,
                   processed_emails_cache, llm_training_samples,
                   processed_training_fingerprints, ml, llm, llm_calls, env,
                   born, model_files, feedback, list_files, history_vars>>

\* No rule lists; the ML library is missing, an API key is set.
StartupEnvironment ==
    [sklearn |-> FALSE, artifact |-> "absent", fit_ok |-> TRUE,
     openai |-> TRUE, anthropic |-> FALSE]

InitStartup ==
    \E cfg \in Configs :
        InitWith([wl |-> NoList, bl |-> NoList], cfg, StartupEnvironment)

NextStartup ==
    \/ \E file \in DamagedFiles : CacheFileDamaged(file)
    \/ \E cfg \in Configs : Construct(cfg)
    \/ \E m \in StartupMessages : Classify(m, NoMLInput, VerdictResponse, TRUE)
    \/ \E m \in StartupMessages : FeedbackOverride(m, FALSE)

SpecStartup == InitStartup /\ [][NextStartup]_vars

----------------------------------------------------------------------------
(* A run: the processor handles the feedback of its accounts, its feedback  *)
(* loop makes passes over the folders, and the pipeline classifies.         *)

\* Messages the user files, as fetch_email returns them.
RunMessages == { m \in Messages : m.sender_domain # <<>> }

\* what the user does: the first sender's message is filed as wanted at
\* sender level or as spam at message level, the second sender's as spam at
\* sender level
RunCorrections ==
    { [msg |-> m, feedback_type |-> t] :
        m \in { x \in RunMessages : x.sender_email = ALICE_UP },
        t \in {"whitelist", "is_spam"} }
    \cup
    { [msg |-> m, feedback_type |-> "blacklist"] :
        m \in { x \in RunMessages : x.sender_email = EVE } }

\* the initialized accounts, each with what its folders hold: one account,
\* or two with empty folders
RunAccounts ==
    { <<c>> : c \in PassInputs(RunCorrections) } \cup { << <<>>, <<>> >> }

\* EmailProcessor.process_feedback()
ProcessFeedback(accounts, fit_ok) ==
    /\ \E r \in {process_feedback(feedback, cache_file, list_files, config,
                                  accounts, fit_ok, now, NoResults)} :
         /\ feedback' = r.fb
         /\ cache_file' = r.file
         /\ model_files' = files_after(feedback.ml, r.fb.ml, model_files)
         /\ list_files' = r.lists
         /\ call' = [op |-> "process_feedback", accounts |-> accounts]
         /\ ret' = [op |-> "process_feedback", results |-> r.results]
    /\ UNCHANGED <<now, ticks, config, whitelist, blacklist,
                   processed_emails_cache, llm_training_samples,
                   processed_training_fingerprints, ml, llm, llm_calls, last,
                   env, born, history_vars>>

\* The ML library is installed, the artifact cannot be read and there is no
\* external classifier.
RunEnvironment ==
    [sklearn |-> TRUE, artifact |-> "unreadable", fit_ok |-> TRUE,
     openai |-> FALSE, anthropic |-> FALSE, inbox |-> RunCorrections]

InitRun ==
    \E fk \in BacklogSizes :
        InitBacklog([wl |-> NoList, bl |-> NoList],
                    [DefaultConfig EXCEPT !.use_llm_for_uncertain = FALSE],
                    RunEnvironment, fk, 0)

NextRun ==
    \/ \E accounts \in RunAccounts, ok \in BOOLEAN :
         ProcessFeedback(accounts, ok)
    \/ \E c \in PassInputs(env.inbox), ok \in BOOLEAN :
         ProcessFeedbackFolders(c, ok)
    \/ \E m \in Messages : \E mlin \in MLInputsFor(m) :
         Classify(m, mlin, NoLLMResponse, TRUE)

SpecRun == InitRun /\ [][NextRun]_vars

----------------------------------------------------------------------------
(* A feedback folder: the user has filed some messages into one folder and  *)
(* the feedback loop makes its pass over it.                                *)

MaxFolderLen == 3
MaxFolderPasses == 1

FolderMessages ==
    { m \in FeedbackInbox : m.sender_email \in {ALICE_UP, EVE, GMAIL_USER} }

\* the folder's content: up to MaxFolderLen different messages in any order
FolderContents ==
    { f \in UNION { [1..n -> FolderMessages] : n \in 0..MaxFolderLen } :
        \A i, j \in 1..Len(f) : i # j => f[i] # f[j] }

\* FeedbackProcessor._process_feedback_folder(client, feedback_type,
\* folder_name, account_name); copy_ok says whether the server accepts the
\* copies
ProcessFeedbackFolder(feedback_type, folder, copy_ok) ==
    /\ feedback.passes < MaxFolderPasses
    /\ \E r \in {process_feedback_folder_ids(feedback, cache_file, list_files,
                                             config, feedback_type, folder,
                                             copy_ok, now)} :
         /\ feedback' = [r.fb EXCEPT !.passes = @ + 1]
         /\ cache_file' = r.file
         /\ list_files' = r.lists
         /\ call' = [op |-> "process_feedback_folder",
                     feedback_type |-> feedback_type, folder |-> folder,
                     copy_ok |-> copy_ok]
         /\ ret' = [op |-> "process_feedback_folder",
                    fetched |-> r.fetched, folder |-> r.folder,
                    processed |-> r.processed, errors |-> r.errors]
    /\ UNCHANGED <<now, ticks, config, whitelist, blacklist,
                   processed_emails_cache, llm_training_samples,
                   processed_training_fingerprints, ml, llm, llm_calls, last,
                   env, born, model_files, history_vars>>

InitFolder ==
    InitWith([wl |-> NoList, bl |-> NoList],
             [DefaultConfig EXCEPT !.use_llm_for_uncertain = FALSE],
             RunEnvironment)

NextFolder ==
    \E t \in FeedbackTypes, folder \in FolderContents, ok \in BOOLEAN :
        ProcessFeedbackFolder(t, folder, ok)

SpecFolder == InitFolder /\ [][NextFolder]_vars

----------------------------------------------------------------------------
(* Sender-level corrections: the user files messages of senders at various  *)
(* domains into the whitelist and the blacklist folder.                     *)

AOL_USER   == <<"u","@","a","o","l",".","c","o","m">>
CLICK_USER == <<"u","@","x",".","c","l","i","c","k">>

ChannelSenders == {ALICE, EVE, GMAIL_USER, AOL_USER, CLICK_USER}

ChannelCorrections ==
    { [msg |-> Msg(sender, ParseDomain(sender), <<"h","i">>, <<"x">>),
       feedback_type |-> t] :
        sender \in ChannelSenders, t \in {"whitelist", "blacklist"} }

ChannelEnvironment ==
    [sklearn |-> TRUE, artifact |-> "unreadable", fit_ok |-> TRUE,
     openai |-> FALSE, anthropic |-> FALSE, inbox |-> ChannelCorrections]

InitChannels ==
    InitWith([wl |-> NoList, bl |-> NoList],
             [DefaultConfig EXCEPT !.use_llm_for_uncertain = FALSE],
             ChannelEnvironment)

NextChannels ==
    \E c \in PassInputs(env.inbox), ok \in BOOLEAN :
        ProcessFeedbackFolders(c, ok)

SpecChannels == InitChannels /\ [][NextChannels]_vars

----------------------------------------------------------------------------
(* Properties of the decision pipeline *)

Classified == last.op = "classify"

LastFp == get_email_fingerprint(last.msg)

\* the sender's domain: the sender_domain field, or what follows the "@"
SenderDomainOf(m) ==
    IF m.sender_domain # <<>> THEN m.sender_domain ELSE ParseDomain(m.sender_email)

\* the sender's address or the sender's domain is an entry of the list
OnList(list, m) ==
    \/ \E e \in list.emails : e = Lower(m.sender_email)
    \/ \E d \in list.domains : d = Lower(SenderDomainOf(m))

\* the entry is marked as a user override
MarkedOverride(entry) ==
    \/ entry.method = "user_feedback"
    \/ "override" \in DOMAIN entry /\ entry.override

HadOverride == last.entry_before # NoDecision /\ MarkedOverride(last.entry_before)
HadPlainEntry == last.entry_before # NoDecision /\ ~MarkedOverride(last.entry_before)

\* C1: a message whose sender address or sender domain is on the whitelist
\* is decided KEEP with confidence 1.0 by method whitelist, also when the
\* sender is on the blacklist as well.
C1_WhitelistWins ==
    (Classified /\ OnList(whitelist, last.msg)) =>
        /\ last.decision.action = "KEEP"
        /\ last.decision.confidence = FULL_CONFIDENCE
        /\ last.decision.method = "whitelist"

C1_Witness ==
    /\ Classified
    /\ OnList(whitelist, last.msg)
    /\ OnList(blacklist, last.msg)
    /\ last.msg.sender_email # Lower(last.msg.sender_email)
    /\ last.decision.method = "whitelist"

\* C2: when the processor's cache holds an override for the fingerprint and
\* the sender is on neither list, the decision is the override's action with
\* confidence 1.0 and method user_feedback, and neither the ML classifier
\* nor the external classifier is invoked.
C2_OverrideDecides ==
    (/\ Classified
     /\ HadOverride
     /\ ~OnList(whitelist, last.msg)
     /\ ~OnList(blacklist, last.msg)) =>
        /\ last.decision.action = last.entry_before.action
        /\ last.decision.confidence = FULL_CONFIDENCE
        /\ last.decision.method = "user_feedback"
        /\ ~last.ml_called
        /\ ~last.llm_called

C2_Witness ==
    /\ Classified
    /\ HadOverride
    /\ last.entry_before.action = "SPAM"
    /\ ~OnList(whitelist, last.msg)
    /\ ~OnList(blacklist, last.msg)
    /\ ml_is_available(ml)
    /\ last.decision.action = "SPAM"
    /\ last.decision.method = "user_feedback"

\* C3 (as claimed): an override entry of the cache file stays in the cache
\* file from one step to the next, whatever the processor classifies and
\* saves.
C3_OverridePermanent ==
    [][\A fp \in DOMAIN cache_file :
          MarkedOverride(cache_file[fp]) =>
              /\ fp \in DOMAIN cache_file'
              /\ MarkedOverride(cache_file'[fp])]_vars

\* C4 (as claimed): after a cache load, every entry of the cache file that is
\* marked as an override is in memory, whatever its age.
C4_OverridesNeverExpire ==
    (last.op = "construct" /\ config.cache_enabled) =>
        \A fp \in DOMAIN cache_file :
            MarkedOverride(cache_file[fp]) => fp \in DOMAIN processed_emails_cache

\* C5 (as claimed): with expiry enabled, a cache load that happens more than
\* max_age_days after the day an external verdict was obtained does not load
\* that verdict, whatever saves happened in between.
C5_AgeFromCreation ==
    (last.op = "construct" /\ config.max_age_days > 0) =>
        \A fp \in DOMAIN processed_emails_cache :
            (/\ ~MarkedOverride(processed_emails_cache[fp])
             /\ born[fp] >= 0) =>
                ~(now - born[fp] > config.max_age_days)

\* the source that decides, in the order rule lists, user override,
\* confident ML, cache hit, external classifier, default
FirstApplicable ==
    IF OnList(whitelist, last.msg) THEN "whitelist"
    ELSE IF OnList(blacklist, last.msg) THEN "blacklist"
    ELSE IF HadOverride THEN "override"
    ELSE IF last.ml_result.confidence > config.ml_confidence_threshold THEN "ml"
    ELSE IF HadPlainEntry THEN "cache"
    ELSE IF config.use_llm_for_uncertain THEN "llm"
    ELSE "default"

\* the same order, the cache being consulted only when the external
\* classifier is enabled
FirstApplicableAmended ==
    IF OnList(whitelist, last.msg) THEN "whitelist"
    ELSE IF OnList(blacklist, last.msg) THEN "blacklist"
    ELSE IF HadOverride THEN "override"
    ELSE IF last.ml_result.confidence > config.ml_confidence_threshold THEN "ml"
    ELSE IF HadPlainEntry /\ config.use_llm_for_uncertain THEN "cache"
    ELSE IF config.use_llm_for_uncertain THEN "llm"
    ELSE "default"

\* the decision carries the mark of the stage that produced it
StageOfDecision ==
    CASE last.decision.method = "whitelist" -> "whitelist"
      [] last.decision.method = "blacklist" -> "blacklist"
      [] last.decision.method = "default" -> "default"
      [] last.decision.method \in {"ml_random_forest", "ml_marketing"} -> "ml"
      [] last.decision.reason # <<>>
         /\ last.decision.reason[Len(last.decision.reason)] = " (user feedback)"
           -> "override"
      [] last.decision.reason # <<>>
         /\ last.decision.reason[Len(last.decision.reason)] = " (cached)"
           -> "cache"
      [] OTHER -> "llm"

\* C6 (as claimed): the decision comes from the first applicable source in
\* the order rule lists, user override, ML result above the threshold,
\* non-override cache hit, external classifier, default keep.
C6_PriorityOrder ==
    Classified => StageOfDecision = FirstApplicable

\* C6 (amended): the same, except that a non-override cache hit is a source
\* only while the external classifier is enabled; when it is disabled the
\* default keep decides although the cache holds a verdict.
C6_PriorityOrderAmended ==
    Classified =>
        /\ StageOfDecision = FirstApplicableAmended
        /\ last.stage = FirstApplicableAmended

C6_Witness ==
    /\ Classified
    /\ HadPlainEntry
    /\ ~config.use_llm_for_uncertain
    /\ last.ml_called
    /\ last.decision.method = "default"

\* the call went past the rule lists, the overrides and the ML classifier
\* and external classification is enabled
ReachedFallback ==
    /\ Classified
    /\ ~OnList(whitelist, last.msg)
    /\ ~OnList(blacklist, last.msg)
    /\ ~HadOverride
    /\ last.ml_called
    /\ last.ml_result.confidence <= config.ml_confidence_threshold
    /\ config.use_llm_for_uncertain

\* C7: during a processor's lifetime the external classifier is invoked at
\* most once per fingerprint: its result is stored in the cache under the
\* fingerprint, and a later call that reaches the fallback stage returns the
\* stored verdict annotated "(cached)" without invoking it.
C7_ExternalOncePerFingerprint ==
    /\ \A fp \in Fingerprints : llm_calls[fp] <= 1
    /\ (Classified /\ last.llm_called) =>
          /\ LastFp \in DOMAIN processed_emails_cache
          /\ processed_emails_cache[LastFp] = last.decision
    /\ (ReachedFallback /\ HadPlainEntry) =>
          /\ ~last.llm_called
          /\ last.decision = [last.entry_before EXCEPT
                                 !.reason = Append(@, " (cached)")]

C7_Witness ==
    /\ ReachedFallback
    /\ HadPlainEntry
    /\ llm_calls[LastFp] = 1
    /\ last.decision.reason[Len(last.decision.reason)] = " (cached)"

\* the external classifier has just been asked and has not classified
ExternalFailed ==
    /\ Classified
    /\ last.stage = "llm"
    /\ last.decision.method \in FailedMethods

\* the call reached the fallback stage and found the stored result of a
\* failed external classification
FoundFailure ==
    /\ ReachedFallback
    /\ HadPlainEntry
    /\ last.entry_before.method \in FailedMethods

\* C39 (as stated) The result of a failed external classification is not
\* stored in the cache, and a call that reaches the fallback stage for its
\* fingerprint asks the external classifier again.
C39_FailureNotCached ==
    /\ ExternalFailed => LastFp \notin DOMAIN processed_emails_cache
    /\ FoundFailure => last.llm_called

\* C39 The result of a failed external classification is stored in the
\* cache like any other, and a call that reaches the fallback stage for its
\* fingerprint returns the stored result annotated "(cached)" without
\* asking the external classifier.
C39_FailureCached ==
    /\ ExternalFailed =>
          /\ LastFp \in DOMAIN processed_emails_cache
          /\ processed_emails_cache[LastFp].method \in FailedMethods
    /\ FoundFailure =>
          /\ ~last.llm_called
          /\ last.decision.method \in FailedMethods
          /\ last.decision.reason[Len(last.decision.reason)] = " (cached)"

\* a second call for a fingerprint whose external classification had failed
C39_Witness ==
    /\ FoundFailure
    /\ ~last.llm_called
    /\ llm_calls[LastFp] = 1

\* C8: a message whose sender is not on the whitelist and whose address or
\* domain is on the blacklist is decided SPAM with confidence 1.0 by method
\* blacklist.
C8_BlacklistSpam ==
    (/\ Classified
     /\ ~OnList(whitelist, last.msg)
     /\ OnList(blacklist, last.msg)) =>
        /\ last.decision.action = "SPAM"
        /\ last.decision.confidence = FULL_CONFIDENCE
        /\ last.decision.method = "blacklist"

C8_Witness ==
    /\ Classified
    /\ last.msg.sender_email = EVE
    /\ DOM_STK \in blacklist.domains
    /\ EVE \notin blacklist.emails
    /\ ~OnList(whitelist, last.msg)
    /\ last.decision.action = "SPAM"
    /\ last.decision.method = "blacklist"

\* C9 (as claimed): every failure outcome has action KEEP: the ML
\* classifier untrained or raising, the external classifier without client,
\* with an API exception or with a response that cannot be parsed.
C9_NoSpamOnFailure ==
    Classified =>
        /\ last.ml_result.method \in {"ml_unavailable", "ml_error"} =>
               last.ml_result.action = "KEEP"
        /\ last.llm_outcome \in {"no_client", "api_exception", "unparseable"} =>
               last.decision.action = "KEEP"

\* C10: classify on an untrained classifier returns KEEP, 0.5,
\* ml_unavailable and leaves the classifier as it was.
C10_UntrainedKeeps ==
    (Classified /\ last.ml_called /\ ~last.ml_before.model_trained) =>
        /\ last.ml_result.action = "KEEP"
        /\ last.ml_result.confidence = UNCERTAIN_CONFIDENCE
        /\ last.ml_result.method = "ml_unavailable"
        /\ ml = last.ml_before

C10_Witness ==
    /\ Classified
    /\ last.ml_called
    /\ ~last.ml_before.model_trained
    /\ last.ml_before.sklearn_available
    /\ last.ml_result.method = "ml_unavailable"
    /\ ml = last.ml_before

\* neither a rule list, nor an override, nor an ML result above the
\* threshold decides about m
Undecided(m, entry, ml_result) ==
    /\ ~OnList(whitelist, m)
    /\ ~OnList(blacklist, m)
    /\ ~(entry # NoDecision /\ MarkedOverride(entry))
    /\ ~(ml_result.confidence > config.ml_confidence_threshold)

\* C29 When external classification is disabled and neither a rule list, an
\* override nor an ML result above the threshold decides, a classification
\* returns KEEP with confidence 0.5 and method default, does not call the
\* external classifier, and leaves the cache, the cache file, the sample
\* buffer and the collected fingerprints as they were.
C29_DisabledDefaultsToKeep ==
    [][(/\ last'.op = "classify"
        /\ ~config.use_llm_for_uncertain
        /\ Undecided(last'.msg, last'.entry_before, last'.ml_result))
         => (/\ last'.decision.action = "KEEP"
             /\ last'.decision.confidence = UNCERTAIN_CONFIDENCE
             /\ last'.decision.method = "default"
             /\ ~last'.llm_called
             /\ llm_calls' = llm_calls
             /\ processed_emails_cache' = processed_emails_cache
             /\ cache_file' = cache_file
             /\ llm_training_samples' = llm_training_samples
             /\ processed_training_fingerprints'
                    = processed_training_fingerprints)]_vars

\* a run with external classification disabled and an API key set has
\* classified a message whose verdict, confident enough to be a sample, is
\* in the cache, and has kept it by default
C29_Witness ==
    /\ Classified
    /\ ~config.use_llm_for_uncertain
    /\ Undecided(last.msg, last.entry_before, last.ml_result)
    /\ HadPlainEntry
    /\ last.entry_before.confidence >= LLM_SAMPLE_MIN_CONFIDENCE
    /\ llm_route(llm) # "none"
    /\ LastFp \notin processed_training_fingerprints
    /\ last.decision.method = "default"

----------------------------------------------------------------------------
(* Properties of the ML classifier *)

\* the construction found an artifact that could be read
FoundArtifact ==
    /\ call.op = "construct"
    /\ env.sklearn
    /\ call.model_files.kind = "present"

\* C11: when the artifact on disk was fitted on another number of features
\* than the extractor produces, the construction retrains from the default
\* samples: the classifier is Trained with model and scaler fitted on the
\* current features, which are saved; a Trained classifier always has a
\* scaler of the extractor's feature count, and classify returns a decision.
C11_MismatchRetrains ==
    /\ (/\ FoundArtifact
        /\ Len(call.model_files.fitted_names) # Len(CurrentFeatureNames)) =>
           /\ ml.model_trained
           /\ ml.model = "fitted"
           /\ ml.fitted_names = CurrentFeatureNames
           /\ model_files = save_model(ml)
    /\ ml.model_trained => Len(ml.fitted_names) = Len(CurrentFeatureNames)
    /\ call.op = "classify" =>
           /\ ret.result.action \in {"KEEP", "SPAM"}
           /\ call.ml.model_trained => ret.result.method # "ml_unavailable"

C11_Witness ==
    /\ FoundArtifact
    /\ call.model_files.fitted_names = FewerFeatureNames
    /\ ml.model_trained
    /\ ml.model = "fitted"
    /\ Len(ml.fitted_names) = Len(CurrentFeatureNames)

\* C12 (as claimed): an artifact whose recorded feature-name list differs
\* from the extractor's list is not taken over by the construction, and no
\* classification is made with a model fitted on other names.
C12_AnyDifferenceInvalidates ==
    /\ (/\ FoundArtifact
        /\ call.model_files.has_names
        /\ call.model_files.saved_names # CurrentFeatureNames) =>
           ~(ml.model_trained /\ ml.model = "loaded")
    /\ (/\ call.op = "classify"
        /\ ret.result.method \in {"ml_random_forest", "ml_marketing"}) =>
           ml.fitted_names = CurrentFeatureNames

\* C13 (as claimed): train_with_samples with 9 or fewer samples fails with
\* the insufficient-samples error and leaves the classifier and the artifact
\* as they were.
C13_TooFewSamples ==
    (call.op = "train_with_samples" /\ Len(call.samples) <= 9) =>
        /\ ~ret.success
        /\ ret.error = "insufficient"
        /\ ml = call.ml
        /\ model_files = call.model_files

\* C13 (amended): the same with the ML library available; without it the
\* failure carries the library-unavailable error; in both cases the
\* classifier and the artifact stay as they were.
C13_TooFewSamplesAmended ==
    (call.op = "train_with_samples" /\ Len(call.samples) <= 9) =>
        /\ ~ret.success
        /\ ret.error = (IF call.ml.sklearn_available THEN "insufficient"
                                                     ELSE "sklearn")
        /\ ml = call.ml
        /\ model_files = call.model_files

C13_Witness ==
    /\ call.op = "train_with_samples"
    /\ Len(call.samples) = 9
    /\ call.ml.model_trained
    /\ call.ml.model = "loaded"
    /\ ret.error = "insufficient"
    /\ ml = call.ml

\* an MLClassifier has been constructed with the ML library available
Constructed == call.op = "construct" /\ env.sklearn

\* the artifact found by the construction was fitted on another number of
\* features than the extractor produces
DifferentFeatureCount ==
    /\ call.model_files.kind = "present"
    /\ \/ Len(call.model_files.fitted_names) # Len(CurrentFeatureNames)
       \/ /\ call.model_files.has_names
          /\ Len(call.model_files.saved_names) # Len(CurrentFeatureNames)

\* a classifier that was Trained before a training pass or a classification
\* is Trained after it
StaysTrained ==
    (call.op \in {"train_with_samples", "classify"} /\ call.ml.model_trained)
        => ml.model_trained

----------------------------------------------------------------------------
(* Properties of the persisted model and of the marketing policy *)

\* every sample of s is a sample of t
Reflects(t, s) ==
    \A i \in 1..Len(s) : \E j \in 1..Len(t) : t[j] = s[i]

\* C23 (as claimed): the persisted model, scaler and feature-name list come
\* from the same training pass at every moment, also after a save in which
\* a write failed, and a classifier constructed from them has loaded a model
\* and a scaler of the same pass.
C23_ArtifactIsOneUnit ==
    /\ model_files.kind = "present" =>
          /\ model_files.model_on = model_files.scaler_on
          /\ model_files.has_names =>
                 model_files.saved_names = model_files.fitted_names
    /\ (ret.op = "construct" /\ ml.model = "loaded") =>
          ml.model_on = ml.scaler_on

\* C24 (as claimed): after a successful training pass on a classifier that an
\* earlier pass had fitted, the fitted model and the persisted model still
\* reflect the samples of the earlier pass as well as those of this one.
C24_RetrainIsIncremental ==
    (/\ ret.op = "train_with_samples"
     /\ ret.success
     /\ call.ml.model = "fitted") =>
        /\ Reflects(ml.model_on, call.samples)
        /\ Reflects(ml.model_on, call.ml.model_on)
        /\ model_files.kind = "present" =>
               Reflects(model_files.model_on, call.ml.model_on)

\* the marketing settings of the configuration file
MarketingEnabled ==
    ConfigGet(config, "detection", "classify_marketing_as_spam", TRUE)

MarketingThreshold ==
    ConfigGet(config, "detection", "marketing_confidence_threshold", 60)

\* the last call was a classify that got a prediction from the model
Predicted ==
    /\ ret.op = "classify"
    /\ "result" \in DOMAIN ret
    /\ ret.result.method \in {"ml_random_forest", "ml_marketing"}

\* C25 (as claimed): with classify_marketing_as_spam set to false classify
\* never returns method ml_marketing; with it enabled a not-spam prediction
\* becomes SPAM with method ml_marketing and the marketing score as
\* confidence exactly when the score exceeds the configured threshold; a spam
\* prediction is never changed.
C25_MarketingObeysConfig ==
    Predicted =>
        /\ ~MarketingEnabled => ret.result.method # "ml_marketing"
        /\ (MarketingEnabled /\ ~call.input.is_spam) =>
              ((/\ ret.result.method = "ml_marketing"
                /\ ret.result.action = "SPAM"
                /\ ret.result.confidence = call.input.marketing_score)
               <=> call.input.marketing_score > MarketingThreshold)
        /\ call.input.is_spam =>
              /\ ret.result.method = "ml_random_forest"
              /\ ret.result.action = "SPAM"

----------------------------------------------------------------------------
(* Properties of the learning loop *)

\* s is an initial part of t
IsPrefix(s, t) == Len(s) <= Len(t) /\ SubSeq(t, 1, Len(s)) = s

FeedbackPass == call.op = "process_feedback_folders"

\* the pass handled one filed message successfully
Corrected == FeedbackPass /\ Len(call.corrections) = 1 /\ ret.processed = 1
CorrectedMsg == call.corrections[1].msg
CorrectedType == call.corrections[1].feedback_type

\* C14: in every step that ends a feedback pass or a classification, the
\* buffer (training_samples, llm_training_samples) is empty afterwards when a
\* retrain was tried and train_with_samples reported success, and otherwise
\* holds every sample it held before and the ones just collected, which is
\* what the next retrain is given.
C14_BufferClearedOnSuccess ==
    [][/\ ret'.op = "process_feedback_folders" =>
            /\ IsPrefix(feedback.training_samples, ret'.collected)
            /\ feedback'.training_samples =
                 IF ret'.retrain_attempted /\ ret'.retrain_success
                 THEN <<>> ELSE ret'.collected
       /\ ret'.op = "classify" =>
            /\ IsPrefix(llm_training_samples, ret'.collected)
            /\ llm_training_samples' =
                 IF ret'.retrain_attempted /\ ret'.retrain_success
                 THEN <<>> ELSE ret'.collected]_vars

C14_Witness ==
    /\ ret.op = "classify"
    /\ ret.retrain_attempted
    /\ ~ret.retrain_success
    /\ Len(llm_training_samples) = LLM_RETRAIN_SAMPLES + 1
    /\ feedback.passes > 0

\* C15 (as claimed): at the end of a pass a retrain is attempted exactly when
\* the buffer holds at least the threshold set as learning.retrain_threshold
\* in the configuration (10 when it is not set).
C15_ThresholdConfigurable ==
    FeedbackPass =>
        (ret.retrain_attempted <=>
            Len(ret.collected) >= ConfigGet(config, "learning", "retrain_threshold",
                                            RETRAIN_THRESHOLD_DEFAULT))

\* the label and the override action of a feedback folder
LabelOf(feedback_type) == feedback_type \in {"blacklist", "is_spam"}
MessageLevel(feedback_type) == feedback_type \in {"not_spam", "is_spam"}

\* the pass appended one sample with the folder's label
OneSampleAppended ==
    ret.collected = Append(call.feedback.training_samples,
                           [email_data |-> CorrectedMsg,
                            is_spam |-> LabelOf(CorrectedType)])

\* the cache file holds an override for the corrected message with the
\* folder's action
OverrideWritten ==
    LET fp == get_email_fingerprint(CorrectedMsg)
    IN  /\ fp \in DOMAIN cache_file
        /\ MarkedOverride(cache_file[fp])
        /\ cache_file[fp].action =
             (IF LabelOf(CorrectedType) THEN "SPAM" ELSE "KEEP")

\* C16 (as claimed): a processed correction appends exactly one sample with
\* the folder's label; a message-level correction writes an override for the
\* message's fingerprint, a sender-level correction leaves the cache file
\* alone.
C16_SampleAndOverride ==
    Corrected =>
        /\ OneSampleAppended
        /\ IF MessageLevel(CorrectedType) THEN OverrideWritten
                                          ELSE cache_file = call.cache_file

\* C16 (amended): the same, the override being written when the cache is
\* enabled; with the cache disabled no correction touches the cache file.
C16_SampleAndOverrideAmended ==
    Corrected =>
        /\ OneSampleAppended
        /\ IF MessageLevel(CorrectedType) /\ config.cache_enabled
           THEN OverrideWritten
           ELSE cache_file = call.cache_file

C16_Witness ==
    /\ Corrected
    /\ CorrectedType = "not_spam"
    /\ config.cache_enabled
    /\ OverrideWritten
    /\ Len(ret.collected) = 1

\* C17 (as claimed): a processed whitelist correction adds the sender's
\* domain when it is non-empty and not one of the major free-mail providers,
\* and the address otherwise; a processed blacklist correction adds the
\* domain when it ends in a suspicious TLD, and the address otherwise; the
\* other list stays as it was.  Domain names are compared as domain names,
\* whatever their letter case.
C17_SenderLevelAdds ==
    LET m      == CorrectedMsg
        d      == Lower(m.sender_domain)
        e      == Lower(m.sender_email)
        before == call.feedback
    IN  /\ (Corrected /\ CorrectedType = "whitelist") =>
              /\ feedback.whitelist =
                   IF d # <<>> /\ d \notin MajorProviders
                   THEN [before.whitelist EXCEPT !.domains = @ \cup {d}]
                   ELSE [before.whitelist EXCEPT !.emails = @ \cup {e}]
              /\ feedback.blacklist = before.blacklist
        /\ (Corrected /\ CorrectedType = "blacklist") =>
              /\ feedback.blacklist =
                   IF \E tld \in SuspiciousTlds : EndsWith(d, tld)
                   THEN [before.blacklist EXCEPT !.domains = @ \cup {d}]
                   ELSE [before.blacklist EXCEPT !.emails = @ \cup {e}]
              /\ feedback.whitelist = before.whitelist

\* the step is a classification that adds a sample to the pipeline's buffer
SampleAdded ==
    /\ ret'.op = "classify"
    /\ ret'.collected # llm_training_samples

\* C30 The pipeline adds a sample to its buffer only for a verdict of the
\* fallback stage (a fresh external result or a cache hit that is not an
\* override) whose confidence is at least 0.7, and only for a fingerprint it
\* has not collected before; the fingerprint is collected from then on, so
\* that a processor adds at most one sample per fingerprint.
C30_OneSamplePerFingerprint ==
    [][/\ SampleAdded =>
            /\ ret'.collected
                  = Append(llm_training_samples,
                           Sample(last'.msg, last'.decision.action = "SPAM"))
            /\ last'.stage \in {"llm", "cache"}
            /\ ~(last'.entry_before # NoDecision
                    /\ MarkedOverride(last'.entry_before))
            /\ last'.decision.confidence >= LLM_SAMPLE_MIN_CONFIDENCE
            /\ get_email_fingerprint(last'.msg)
                  \notin processed_training_fingerprints
            /\ get_email_fingerprint(last'.msg)
                  \in processed_training_fingerprints'
       /\ last'.op # "construct" =>
            processed_training_fingerprints
                \subseteq processed_training_fingerprints']_vars

\* a confident cached verdict has been returned for a fingerprint collected
\* earlier, after a retraining pass emptied the buffer, and no sample was
\* added for it again
C30_Witness ==
    /\ Classified
    /\ ret.op = "classify"
    /\ last.stage = "cache"
    /\ last.decision.confidence >= LLM_SAMPLE_MIN_CONFIDENCE
    /\ LastFp \in processed_training_fingerprints
    /\ ret.collected = llm_training_samples
    /\ \A i \in 1..Len(llm_training_samples) :
           get_email_fingerprint(llm_training_samples[i].email_data) # LastFp

\* the samples the last pass of the feedback loop appended to its buffer
AppendedByPass ==
    { ret.collected[i] :
        i \in (Len(call.feedback.training_samples) + 1)..Len(ret.collected) }

\* C34 A sample the feedback loop builds from a correction is weighted as
\* user feedback: while its sender has fewer than 2 feedback entries, the
\* weight train_with_samples gives it is 3.0.
C34_FeedbackSamplesWeighThree ==
    ret.op = "process_feedback_folders" =>
        \A sample \in AppendedByPass :
            extract_sender_history_features(sender_history, sample.email_data)
                    .sender_total_feedbacks < SOME_HISTORY_COUNT
                => sample_weight(sample, sender_history) = USER_FEEDBACK_WEIGHT

----------------------------------------------------------------------------
(* Properties of the pure functions *)

FingerprintsTaken == ret.op = "get_email_fingerprint"

First200(body) == SubSeq(body, 1, Min(Len(body), 200))

SameKeyFields ==
    /\ call.m.sender_email = call.other.sender_email
    /\ call.m.subject = call.other.subject
    /\ First200(call.m.body) = First200(call.other.body)

\* C18: two messages with the same sender address, the same subject and the
\* same first 200 characters of body have the same fingerprint, whatever
\* their other fields and whatever their bodies hold after character 200.
C18_FingerprintDependsOnKeyFields ==
    (FingerprintsTaken /\ SameKeyFields)
        => ret.fingerprint = ret.other_fingerprint

\* two messages whose bodies differ after character 200 and whose domains
\* differ have been fingerprinted
C18_Witness ==
    /\ FingerprintsTaken
    /\ SameKeyFields
    /\ call.m.body # call.other.body
    /\ Len(call.m.body) > 200
    /\ Len(call.other.body) > 200
    /\ call.m.sender_domain # call.other.sender_domain

\* C33 The feedback loop computes for every message the fingerprint the
\* pipeline computes for it, so the override the feedback loop writes for a
\* message is stored under the key the pipeline looks that message up with.
C33_SameFingerprint ==
    ret.op = "compute_email_fingerprint" =>
        /\ ret.fingerprint = ret.lookup
        /\ ret.lookup \in DOMAIN ret.file
        /\ MarkedOverride(ret.file[ret.lookup])

\* the two fingerprints of a message whose body is longer than the cut, and
\* the override written for it
C33_Witness ==
    /\ ret.op = "compute_email_fingerprint"
    /\ Len(call.m.body) > FpBodyChars
    /\ call.m.sender_domain = <<>>
    /\ ret.fingerprint = ret.lookup
    /\ ret.file[ret.lookup].action = "SPAM"

Weighed == ret.op = "calculate_sample_weight"

\* the base weight of the call's sample by its source tag
BaseOfCall ==
    IF "source" \in DOMAIN call.sample /\ call.sample.source = "user_feedback"
    THEN 300 ELSE 100

Entries(features) == features.sender_total_feedbacks

Recurring(features) ==
    \/ features.sender_is_recurring_spammer = 1
    \/ features.sender_is_recurring_ham = 1

\* C19: the weight of a sample is 5.0 when its sender is a recurring spammer
\* or recurring ham sender or has at least 3 feedback entries, otherwise 1.5
\* times the base weight when the sender has exactly 2 entries, otherwise the
\* base weight; the base weight is 3.0 for source user_feedback, else 1.0.
C19_SampleWeight ==
    Weighed =>
        ret.weight =
            IF Recurring(ret.features) \/ Entries(ret.features) >= 3 THEN 500
            ELSE IF Entries(ret.features) = 2 THEN (BaseOfCall * 3) \div 2
            ELSE BaseOfCall

\* a user_feedback sample of a sender with exactly two entries was weighed
\* 4.5
C19_Witness ==
    /\ Weighed
    /\ BaseOfCall = 300
    /\ Entries(ret.features) = 2
    /\ ret.weight = 450

\* the sender of the call's sample in a history file: its entries, 0 when
\* the file does not know the sender
PriorEntries(history) ==
    LET sender == Lower(call.sample.email_data.sender_email)
    IN  IF sender \in DOMAIN history /\ DOMAIN history[sender] # {}
        THEN history[sender].spam_count + history[sender].ham_count
        ELSE 0

Unseen(history) ==
    Lower(call.sample.email_data.sender_email) \notin DOMAIN history

\* C20: of two samples that differ only in sender history, the one whose
\* sender has at least 3 prior feedback entries weighs at least as much as
\* the one whose sender is unseen, whatever the source tag.
C20_WeightMonotone ==
    (Weighed /\ PriorEntries(call.history) >= 3 /\ Unseen(call.other_history))
        => ret.weight >= ret.other_weight

\* a user_feedback sample was weighed for a sender with three entries and
\* for an unseen sender, and the first weight is strictly larger
C20_Witness ==
    /\ Weighed
    /\ BaseOfCall = 300
    /\ PriorEntries(call.history) >= 3
    /\ Unseen(call.other_history)
    /\ ret.weight > ret.other_weight

----------------------------------------------------------------------------
(* Properties of the sender history and of feature extraction *)

\* a count of a sender in a history table, 0 when the table has no record
HistoryCount(table, sender, field) ==
    IF sender \in DOMAIN table /\ field \in DOMAIN table[sender]
    THEN table[sender][field] ELSE 0

\* C21 (as claimed): after the feedback loop has processed a correction for
\* a sender, the sender's history record has its spam_count (spam label) or
\* ham_count (ham label) one higher than before; a classification changes no
\* history record.
C21_HistoryFollowsFeedback ==
    /\ Corrected =>
          LET sender == Lower(CorrectedMsg.sender_email)
              field  == IF LabelOf(CorrectedType) THEN "spam_count"
                                                  ELSE "ham_count"
          IN  HistoryCount(sender_history, sender, field) =
                  HistoryCount(call.sender_history, sender, field) + 1
    /\ call.op = "classify" => sender_history = call.sender_history

\* the last call was an extraction by an extractor that had loaded the table
\* before
CachedRead == call.op = "extract_features" /\ call.extractor.cached

\* seconds between the last load before the call and the call
AgeAtRead == call.clock - call.extractor.sender_history_cache_time

\* C22: a read at most 60 seconds after the last load of the table returns
\* the snapshot of that load, whatever the stored table is by then; a read
\* more than 60 seconds after it reloads and returns the stored table.
C22_HistoryCacheTtl ==
    CachedRead =>
        IF AgeAtRead <= 60
        THEN extractor = call.extractor
        ELSE /\ extractor.sender_history_cache = call.sender_history
             /\ extractor.sender_history_cache_time = call.clock

\* a read exactly 60 seconds after the load returned the snapshot although
\* the stored table had been replaced, and the features are those of the
\* snapshot
C22_Witness ==
    /\ CachedRead
    /\ AgeAtRead = 60
    /\ call.sender_history # call.extractor.sender_history_cache
    /\ extractor.sender_history_cache = call.extractor.sender_history_cache
    /\ ret.features.history =
           extract_sender_history_features(call.extractor.sender_history_cache,
                                           call.msg)

\* C26 (as claimed): two calls of extract_features on the same message return
\* the same features, whenever they are made.
C26_ExtractIsDeterministic ==
    (call.op = "extract_features" /\ call.previous.op = "extract_features")
        => ret.features = call.previous.features

----------------------------------------------------------------------------
(* Properties of the rule-list maintenance *)

AddOps == {"add_to_whitelist", "add_to_blacklist"}
RemoveOps == {"remove_from_whitelist", "remove_from_blacklist"}

\* the kind of entry the last list operation was asked for
CalledKind == item_type_of(call.item, call.item_type)

\* the item is a well-formed address: one "@", a local part, a dotted domain
WellFormedAddress(item) ==
    \E k \in 2..(Len(item) - 1) :
        /\ item[k] = "@"
        /\ \A j \in 1..Len(item) : item[j] = "@" => j = k
        /\ HasDot(SubSeq(item, k + 1, Len(item)))
        /\ item[k + 1] # "." /\ item[Len(item)] # "."

\* the input of the last list operation is invalid: an unknown item type,
\* an invalid address, or a domain that is empty or has no dot
InvalidInput ==
    \/ CalledKind \notin {"email", "domain"}
    \/ CalledKind = "email" /\ ~WellFormedAddress(call.item)
    \/ CalledKind = "domain" /\ (call.item = <<>> \/ ~HasDot(call.item))

ListsAsBefore ==
    /\ whitelist = call.whitelist
    /\ blacklist = call.blacklist
    /\ list_files = call.list_files

\* C27 An add to either list with an invalid address, an invalid domain or
\* an unknown item type fails with an error and leaves both lists in memory
\* and both list files as they were.
C27_InvalidAddChangesNothing ==
    (call.op \in AddOps /\ InvalidInput) => (ret.raised /\ ListsAsBefore)

\* an add of a misspelt item type, of an address without a dotted domain, or
\* of the empty domain has failed, with lists that had entries
C27_Witness ==
    /\ call.op \in AddOps
    /\ InvalidInput
    /\ ret.raised
    /\ call.item \in {NODOT_ADDRESS, <<>>}
    /\ call.whitelist # NoList
    /\ call.list_files # ListFiles(call.whitelist, call.blacklist)

\* the list the last removal was applied to, before and after
ListBefore ==
    IF call.op = "remove_from_whitelist" THEN call.whitelist ELSE call.blacklist
ListAfter ==
    IF call.op = "remove_from_whitelist" THEN whitelist ELSE blacklist

\* the entry the last removal was asked to remove was on the list
WasMember ==
    IF CalledKind = "email" THEN Lower(call.item) \in ListBefore.emails
                            ELSE Lower(call.item) \in ListBefore.domains

\* the removal of a non-member: false, no error, nothing changed or written
NonMemberIsNoOp ==
    (call.op \in RemoveOps /\ ~InvalidInput /\ ~WasMember)
        => (~ret.raised /\ ~ret.result /\ ListsAsBefore)

\* C28 Removing a valid address or domain that is not on the list returns
\* false without raising, changes neither list and writes no list file;
\* removing one that is on the list returns true, and afterwards a lookup of
\* the item in that list finds no match.
C28_RemoveThenNoMatch ==
    /\ NonMemberIsNoOp
    /\ (call.op \in RemoveOps /\ ~InvalidInput /\ WasMember)
           => (/\ ~ret.raised /\ ret.result
               /\ ListMatch(ListAfter, call.item, <<>>) = "none")

\* C28 (amended) Removing a valid address or domain that is not on the list
\* returns false without raising, changes neither list and writes no list
\* file; removing one that is on the list returns true, and afterwards the
\* item is no longer an entry of that kind in that list, the other list is
\* as before and the files hold the two lists.
C28_RemoveThenNoEntry ==
    /\ NonMemberIsNoOp
    /\ (call.op \in RemoveOps /\ ~InvalidInput /\ WasMember)
           => (/\ ~ret.raised /\ ret.result
               /\ IF CalledKind = "email"
                  THEN Lower(call.item) \notin ListAfter.emails
                  ELSE Lower(call.item) \notin ListAfter.domains
               /\ \/ call.op = "remove_from_whitelist" /\ blacklist = call.blacklist
                  \/ call.op = "remove_from_blacklist" /\ whitelist = call.whitelist
               /\ list_files = ListFiles(whitelist, blacklist))

\* an address has been removed from a list that also holds its domain,
\* while the files held other lists than the ones in memory
C28_Witness ==
    /\ call.op \in RemoveOps
    /\ ~InvalidInput
    /\ WasMember
    /\ CalledKind = "email"
    /\ ret.result
    /\ ParseDomain(Lower(call.item)) \in ListAfter.domains
    /\ call.list_files # ListFiles(call.whitelist, call.blacklist)

----------------------------------------------------------------------------
(* Properties of the startup *)

\* C31 When the load of the cache file raises, the construction of the
\* processor still ends, with an empty cache in memory, and the
\* classifications that follow return a decision.
C31_LoadFailureGivesEmptyCache ==
    /\ (last.op = "construct" /\ LoadRaises(cache_file))
          => processed_emails_cache = EmptyDict
    /\ Classified => last.decision.action \in {"KEEP", "SPAM"}

\* a run has been constructed, with the cache enabled, on a cache file that
\* holds an entry that is not an object beside an override
C31_Witness ==
    /\ last.op = "construct"
    /\ config.cache_enabled
    /\ LoadRaises(cache_file)
    /\ \E fp \in DOMAIN cache_file :
          cache_file[fp] # NullEntry /\ MarkedOverride(cache_file[fp])
    /\ processed_emails_cache = EmptyDict

----------------------------------------------------------------------------
(* Properties of the rule-list entries *)

\* the entry has no "scheme://" in front and no path behind: no "/" at all
NoSchemeOrPath(d) == \A i \in 1..Len(d) : d[i] # "/"

\* the entries of the list are normalised
Normalised(list) ==
    /\ \A e \in list.emails : WellFormedAddress(e) /\ e = Lower(e)
    /\ \A d \in list.domains :
          d = Lower(d) /\ HasDot(d) /\ NoSchemeOrPath(d)

\* a lookup of an entry of the list, in small letters and in capitals,
\* matches: an address as the sender, a name as the sender's domain
FoundInAnyCase(list) ==
    /\ \A e \in list.emails :
          \A x \in {e, Upper(e)} : ListMatch(list, x, <<>>) = "email"
    /\ \A d \in list.domains :
          \A x \in {d, Upper(d)} :
              ListMatch(list, <<"z","@">> \o x, x) = "domain"

\* C32 After any sequence of add, remove, import and clear operations from
\* empty lists, every stored address is a well-formed address in small
\* letters, every stored domain is in small letters, has a dot and no
\* scheme or path, and a lookup of an entry in any letter case matches it.
C32_EntriesNormalised ==
    /\ Normalised(whitelist) /\ Normalised(blacklist)
    /\ FoundInAnyCase(whitelist) /\ FoundInAnyCase(blacklist)

\* an import has put an address and a name on a list that an add of a URL
\* had put a name on before
C32_Witness ==
    /\ call.op = "import_list"
    /\ ~ret.raised
    /\ call.file.format = "text"
    /\ BOB \in whitelist.emails
    /\ DOM_EC \in whitelist.domains
    /\ DOM_EC \in blacklist.domains
    /\ ALICE \in blacklist.emails

----------------------------------------------------------------------------
(* Properties of a run *)

RECURSIVE SumOfLengths(_)
SumOfLengths(accounts) ==
    IF accounts = <<>> THEN 0
    ELSE Len(Head(accounts)) + SumOfLengths(Tail(accounts))

\* C37 process_feedback runs the pass of the feedback loop for every
\* initialized account: it reports as many accounts processed as there are
\* accounts, no error, and as much feedback as the folders of the accounts
\* hold.
C37_EveryAccountProcessed ==
    ret.op = "process_feedback" =>
        /\ ret.results.accounts_processed = Len(call.accounts)
        /\ ret.results.total_errors = 0
        /\ ret.results.total_feedback = SumOfLengths(call.accounts)

\* the pipeline has just classified a message
JustClassified == Classified /\ call.op = "none"

\* C36 What the feedback loop has changed governs the next classification
\* of the same processor: a sender on the feedback loop's whitelist or
\* blacklist is decided by that list, a message with a stored override is
\* decided by the override, and the model the pipeline asks is as trained as
\* the feedback loop's.
C36_FeedbackGovernsNextClassification ==
    JustClassified =>
        /\ OnList(feedback.whitelist, last.msg) => last.stage = "whitelist"
        /\ (/\ ~OnList(feedback.whitelist, last.msg)
            /\ OnList(feedback.blacklist, last.msg)) => last.stage = "blacklist"
        /\ (/\ ~OnList(feedback.whitelist, last.msg)
            /\ ~OnList(feedback.blacklist, last.msg)
            /\ LastFp \in DOMAIN cache_file
            /\ IsOverrideEntry(cache_file[LastFp])) => last.stage = "override"
        /\ feedback.ml.model_trained => last.ml_before.model_trained

----------------------------------------------------------------------------
(* Properties of a pass over a feedback folder *)

\* C38 In a pass over a folder in which every operation succeeds, what the
\* fetches return is the folder's messages as they were when the ids were
\* listed, each once and each under its own id, and every one of them is
\* processed.
C38_EveryListedMessageOnce ==
    (ret.op = "process_feedback_folder" /\ call.copy_ok) =>
        /\ ret.fetched = call.folder
        /\ ret.processed = Len(call.folder)
        /\ ret.errors = 0

----------------------------------------------------------------------------
(* Properties of the sender-level corrections *)

\* C40 The feedback loop and the feature extractor agree on the domain
\* sets: a whitelist correction adds the address alone when the extractor
\* sets sender_legitimate_domain and the domain alone when it does not, and
\* a blacklist correction adds the domain alone when the extractor sets
\* sender_suspicious_tld and the address alone when it does not.
C40_ChannelsAgreeWithExtractor ==
    Corrected =>
        LET f      == extract_sender_features(CorrectedMsg)
            before == call.feedback
        IN  /\ CorrectedType = "whitelist" =>
                  IF f.sender_legitimate_domain
                  THEN feedback.whitelist.domains = before.whitelist.domains
                  ELSE feedback.whitelist.emails = before.whitelist.emails
            /\ CorrectedType = "blacklist" =>
                  IF f.sender_suspicious_tld
                  THEN feedback.blacklist.emails = before.blacklist.emails
                  ELSE feedback.blacklist.domains = before.blacklist.domains

====
